---- MODULE Spec2Model ----
(***************************************************************************)
(* Cursor pagination (Relay connections): the pagination builder           *)
(* (builder: nodesToReturn, apolloCursorPaginationBuilder) instantiated    *)
(* with the in-memory array adapter (array/index.ts).                      *)
(*                                                                         *)
(* JavaScript values of node fields are modelled as tagged records:        *)
(* numbers, null and undefined.  Primary keys are numbers 1..9, so that    *)
(* the template literal ${id} is one decimal digit.  A string is a         *)
(* sequence of pieces: a piece is a separator token or the text of one     *)
(* value.                                                                  *)
(***************************************************************************)
EXTENDS Integers, Sequences, FiniteSets, TLC

VARIABLES
    array,    \* the caller's array (the node accessor handed to paginateArray)
    params,   \* the GraphQLParams of the last call, or NoParams
    result,   \* what the last call settled with, or NoResult
    pages,    \* the calls of the paging client so far, each with its result
    out       \* input and output of the last adapter operator applied on its own

vars == <<array, params, result, pages, out>>

----------------------------------------------------------------------------
(* Bounds of the model *)

MaxNodes == 3
MaxCount == 2

----------------------------------------------------------------------------
(* JavaScript values *)

Num(k) == [t |-> "number", n |-> k]
Null == [t |-> "null", n |-> 0]
Undefined == [t |-> "undefined", n |-> 0]
NaN == [t |-> "NaN", n |-> 0]

IsNullish(v) == v.t = "null" \/ v.t = "undefined"

\* a === b
StrictEq(a, b) == a.t = b.t /\ a.n = b.n

\* node[col]: a missing property reads as undefined
Get(node, col) == IF col \in DOMAIN node THEN node[col] ELSE Undefined

\* ToNumber of the relational operators: null is 0, undefined is NaN
ToNumber(v) ==
    CASE v.t = "number" -> v
      [] v.t = "null" -> Num(0)
      [] OTHER -> NaN

\* a < b and a > b on non-string operands; any comparison with NaN is false
JsLt(a, b) ==
    LET x == ToNumber(a)
        y == ToNumber(b)
    IN  x.t = "number" /\ y.t = "number" /\ x.n < y.n

JsGt(a, b) == JsLt(b, a)

\* Optional values: absent is the empty tuple
Absent == <<>>
Some(x) == <<x>>
IsSome(o) == o # <<>>
The(o) == o[1]

----------------------------------------------------------------------------
(* Strings of the cursor codec *)

SEPARATION_TOKEN == "_*_"
ARRAY_DATA_SEPARATION_TOKEN == "_%_"

Digits == <<"0", "1", "2", "3", "4", "5", "6", "7", "8", "9">>

\* A string value: its text is a sequence of pieces, a separation token
\* that occurs in it being one piece
Str(s) == [t |-> "string", n |-> 0, s |-> s]
Quote == "\""

\* ${id}, the template literal of a number
NumberToString(k) == <<Digits[k + 1]>>

\* ${id} of a primary key, a number or a string
TemplateOf(id) == IF id.t = "string" THEN id.s ELSE NumberToString(id.n)

\* JSON.stringify of a number, null or a string (of pieces that need no escape)
JSONStringify(v) ==
    IF v.t = "null" THEN <<"null">>
    ELSE IF v.t = "string" THEN <<Quote>> \o v.s \o <<Quote>>
    ELSE NumberToString(v.n)

IsDigitText(s) == Len(s) = 1 /\ \E k \in 0..9 : Digits[k + 1] = s[1]
DigitOf(s) == CHOOSE k \in 0..9 : Digits[k + 1] = s[1]

\* JSON.parse: ok is FALSE when it throws SyntaxError
JSONParse(s) ==
    IF s = <<"null">> THEN [ok |-> TRUE, v |-> Null]
    ELSE IF IsDigitText(s) THEN [ok |-> TRUE, v |-> Num(DigitOf(s))]
    ELSE IF /\ Len(s) >= 2
            /\ s[1] = Quote
            /\ s[Len(s)] = Quote
            /\ \A i \in 2..(Len(s) - 1) : s[i] # Quote
    THEN [ok |-> TRUE, v |-> Str(SubSeq(s, 2, Len(s) - 1))]
    ELSE [ok |-> FALSE, v |-> Undefined]

\* ToNumber of a string: the empty string is 0, a numeral its number, else NaN
StringToNumber(s) ==
    IF s = <<>> THEN Num(0)
    ELSE IF IsDigitText(s) THEN Num(DigitOf(s))
    ELSE NaN

\* pk < id and pk > id, pk a number of the node and id the string of the cursor
LtString(pk, s) ==
    LET x == ToNumber(pk)
        y == StringToNumber(s)
    IN  x.t = "number" /\ y.t = "number" /\ x.n < y.n

GtString(pk, s) ==
    LET x == ToNumber(pk)
        y == StringToNumber(s)
    IN  x.t = "number" /\ y.t = "number" /\ x.n > y.n

\* Base64: encode wraps the text; decoding a text that encode did not produce
\* yields bytes that contain no separator
encode(str) == <<"b64:">> \o str
decode(str) == IF str # <<>> /\ str[1] = "b64:" THEN Tail(str) ELSE <<"?">>

\* str.split(token): the pieces between the occurrences of token
RECURSIVE SplitFrom(_, _, _, _)
SplitFrom(str, token, i, cur) ==
    IF i > Len(str) THEN <<cur>>
    ELSE IF str[i] = token THEN <<cur>> \o SplitFrom(str, token, i + 1, <<>>)
    ELSE SplitFrom(str, token, i + 1, Append(cur, str[i]))

Split(str, token) == SplitFrom(str, token, 1, <<>>)

cursorGenerator(id, customColumnValue) ==
    encode(TemplateOf(id) \o <<SEPARATION_TOKEN>> \o customColumnValue)

\* getDataFromCursor: [ok, error, id, values]; ok is FALSE when it throws
getDataFromCursor(cursor) ==
    LET data == Split(decode(cursor), SEPARATION_TOKEN)
    IN  IF Len(data) < 2
        THEN [ok |-> FALSE, error |-> "Could not find edge with cursor",
              id |-> <<>>, values |-> <<>>]
        ELSE LET parts == Split(data[2], ARRAY_DATA_SEPARATION_TOKEN)
                 parsed == [i \in 1..Len(parts) |-> JSONParse(parts[i])]
             IN  IF \E i \in 1..Len(parts) : ~parsed[i].ok
                 THEN [ok |-> FALSE, error |-> "SyntaxError",
                       id |-> <<>>, values |-> <<>>]
                 ELSE [ok |-> TRUE, error |-> "", id |-> data[1],
                       values |-> [i \in 1..Len(parts) |-> parsed[i].v]]

----------------------------------------------------------------------------
(* Order arguments: orderColumn and ascOrDesc are each a scalar or an array *)

Scalar(x) == [isArray |-> FALSE, v |-> <<x>>]
Arr(s) == [isArray |-> TRUE, v |-> s]

OrderArgs(orderColumn, ascOrDesc, primaryKey) ==
    [orderColumn |-> orderColumn, ascOrDesc |-> ascOrDesc, primaryKey |-> primaryKey]

\* arr[i] of a JavaScript array (0-based); undefined beyond its end
At(arr, i) == IF i + 1 <= Len(arr) THEN arr[i + 1] ELSE Undefined

----------------------------------------------------------------------------
(* Array adapter: applyOrderBy *)

\* directions[i] || directions[0] || 'asc'
DirectionAt(directions, i) ==
    IF i + 1 <= Len(directions) THEN directions[i + 1]
    ELSE IF Len(directions) >= 1 THEN directions[1]
    ELSE "asc"

\* The tie-break of the sort comparator: primary key ascending, then the
\* original index
ComparePrimaryKey(a, b, primaryKey) ==
    LET aValue == Get(a.item, primaryKey)
        bValue == Get(b.item, primaryKey)
    IN  IF ~StrictEq(aValue, bValue)
        THEN IF IsNullish(aValue) THEN 1
             ELSE IF IsNullish(bValue) THEN -1
             ELSE IF JsLt(aValue, bValue) THEN -1 ELSE 1
        ELSE a.idx - b.idx

\* The comparator handed to decorated.sort, from column i on
RECURSIVE CompareFrom(_, _, _, _, _, _)
CompareFrom(i, a, b, columns, directions, primaryKey) ==
    IF i >= Len(columns) THEN ComparePrimaryKey(a, b, primaryKey)
    ELSE LET col == columns[i + 1]
             dir == DirectionAt(directions, i)
             aValue == Get(a.item, col)
             bValue == Get(b.item, col)
         IN  IF ~StrictEq(aValue, bValue)
             THEN IF IsNullish(aValue) THEN 1
                  ELSE IF IsNullish(bValue) THEN -1
                  ELSE IF dir = "asc"
                       THEN (IF JsLt(aValue, bValue) THEN -1 ELSE 1)
                       ELSE (IF JsGt(aValue, bValue) THEN -1 ELSE 1)
             ELSE CompareFrom(i + 1, a, b, columns, directions, primaryKey)

SortCompare(a, b, columns, directions, primaryKey) ==
    CompareFrom(0, a, b, columns, directions, primaryKey)

\* Array.prototype.sort (stable): x goes behind the last element it does not
\* precede
RECURSIVE InsertSorted(_, _, _, _, _)
InsertSorted(x, sorted, columns, directions, primaryKey) ==
    IF sorted = <<>> THEN <<x>>
    ELSE LET last == sorted[Len(sorted)]
         IN  IF SortCompare(x, last, columns, directions, primaryKey) < 0
             THEN Append(InsertSorted(x, SubSeq(sorted, 1, Len(sorted) - 1),
                                      columns, directions, primaryKey), last)
             ELSE Append(sorted, x)

RECURSIVE SortDecorated(_, _, _, _, _)
SortDecorated(decorated, n, columns, directions, primaryKey) ==
    IF n = 0 THEN <<>>
    ELSE InsertSorted(decorated[n],
                      SortDecorated(decorated, n - 1, columns, directions, primaryKey),
                      columns, directions, primaryKey)

\* decorated.map((d) => d.item)
Undecorate(decorated) == [i \in 1..Len(decorated) |-> decorated[i].item]

\* initialValue.map((item, idx) => ({ item, idx }))
Decorate(initialValue) ==
    [i \in 1..Len(initialValue) |-> [item |-> initialValue[i], idx |-> i - 1]]

applyOrderBy(nodesAccessor, opts) ==
    Undecorate(SortDecorated(Decorate(nodesAccessor), Len(nodesAccessor),
                             opts.orderColumn.v, opts.ascOrDesc.v, opts.primaryKey))

----------------------------------------------------------------------------
(* Array adapter: applyAfterCursor and applyBeforeCursor *)

\* Variant: the comparator named after the side that is kept
getComparatorOfKeptSide(beforeOrAfter, orderDirection) ==
    IF beforeOrAfter = "before"
    THEN (IF orderDirection = "asc" THEN "<" ELSE ">")
    ELSE (IF orderDirection = "asc" THEN ">" ELSE "<")

getComparator(beforeOrAfter, orderDirection) ==
    IF beforeOrAfter = "after"
    THEN (IF orderDirection = "asc" THEN "<" ELSE ">")
    ELSE (IF orderDirection = "asc" THEN ">" ELSE "<")

\* comparator === '<' ? a < b : a > b
Compare(comparator, a, b) == IF comparator = "<" THEN JsLt(a, b) ELSE JsGt(a, b)

ComparePk(comparator, pk, id) ==
    IF comparator = "<" THEN LtString(pk, id) ELSE GtString(pk, id)

\* The operation run per order column; index is Absent for a scalar
\* orderColumn and Some(i), 0-based, for the i-th column of an array
FilterOperation(beforeOrAfter, orderBy, index, prev, opts, values) ==
    LET useArray == opts.ascOrDesc.isArray /\ IsSome(index)
        orderDirection ==
            IF useArray THEN opts.ascOrDesc.v[The(index) + 1]
            ELSE IF ~opts.ascOrDesc.isArray THEN opts.ascOrDesc.v[1]
            ELSE "asc"
        currValue == IF useArray THEN At(values, The(index)) ELSE At(values, 0)
        comparator == getComparator(beforeOrAfter, orderDirection)
        KeepLater(node) ==
            LET nodeValue == Get(node, orderBy)
                prevNodeValue == Get(node, opts.orderColumn.v[The(index)])
                prevValue == At(values, The(index) - 1)
            IN  IF StrictEq(prevNodeValue, prevValue)
                THEN IF IsNullish(currValue) THEN TRUE
                     ELSE Compare(comparator, nodeValue, currValue)
                ELSE FALSE
        KeepFirst(node) == Compare(comparator, Get(node, orderBy), currValue)
    IN  IF IsSome(index) /\ The(index) > 0 THEN SelectSeq(prev, KeepLater)
        ELSE IF IsNullish(currValue) THEN prev
        ELSE SelectSeq(prev, KeepFirst)

\* operateResult of the filter: the primary key as the last column
FilterResult(beforeOrAfter, prev, opts, id, values) ==
    LET lastOrderDirection == opts.ascOrDesc.v[Len(opts.ascOrDesc.v)]
        comparator == getComparator(beforeOrAfter, lastOrderDirection)
        lastOrderColumn == opts.orderColumn.v[Len(opts.orderColumn.v)]
        lastValue == At(values, Len(values) - 1)
        Keep(node) ==
            LET nodeValue == Get(node, lastOrderColumn)
                nodePrimaryKey == Get(node, opts.primaryKey)
            IN  IF IsNullish(lastValue) THEN ComparePk(comparator, nodePrimaryKey, id)
                ELSE IF StrictEq(nodeValue, lastValue)
                     THEN ComparePk(comparator, nodePrimaryKey, id)
                     ELSE Compare(comparator, nodeValue, lastValue)
    IN  SelectSeq(prev, Keep)

\* operateOverScalarOrArray as the filter uses it: every column in turn
RECURSIVE FilterColumns(_, _, _, _, _)
FilterColumns(beforeOrAfter, n, nodes, opts, values) ==
    IF n = 0 THEN nodes
    ELSE FilterOperation(beforeOrAfter, opts.orderColumn.v[n], Some(n - 1),
                         FilterColumns(beforeOrAfter, n - 1, nodes, opts, values),
                         opts, values)

executeFilterQuery(beforeOrAfter, nodes, opts, id, values) ==
    LET filtered ==
            IF opts.orderColumn.isArray
            THEN FilterColumns(beforeOrAfter, Len(opts.orderColumn.v), nodes, opts, values)
            ELSE FilterOperation(beforeOrAfter, opts.orderColumn.v[1], Absent, nodes,
                                 opts, values)
    IN  FilterResult(beforeOrAfter, filtered, opts, id, values)

\* The filter returned by buildRemoveNodesFromBeforeOrAfter, from the data of
\* the cursor on.  [ok, error, v]: ok is FALSE when getDataFromCursor threw
RemoveNodes(beforeOrAfter, nodesAccessor, opts, data) ==
    IF ~data.ok THEN [ok |-> FALSE, error |-> data.error, v |-> <<>>]
    ELSE [ok |-> TRUE, error |-> "",
          v |-> executeFilterQuery(beforeOrAfter, nodesAccessor, opts,
                                   data.id, data.values)]

buildRemoveNodesFromBeforeOrAfter(beforeOrAfter, nodesAccessor, cursorOfInitialNode, opts) ==
    RemoveNodes(beforeOrAfter, nodesAccessor, opts, getDataFromCursor(cursorOfInitialNode))

applyAfterCursor(nodesAccessor, cursor, opts) ==
    buildRemoveNodesFromBeforeOrAfter("before", nodesAccessor, cursor, opts)

applyBeforeCursor(nodesAccessor, cursor, opts) ==
    buildRemoveNodesFromBeforeOrAfter("after", nodesAccessor, cursor, opts)

----------------------------------------------------------------------------
(* Array adapter: the return* operators and convertNodesToEdges *)

\* arr.slice(from, to) with 0 <= from, 0 <= to
Slice(arr, from, to) ==
    LET hi == IF to < Len(arr) THEN to ELSE Len(arr)
    IN  IF from >= hi THEN <<>> ELSE SubSeq(arr, from + 1, hi)

Reverse(arr) == [i \in 1..Len(arr) |-> arr[Len(arr) + 1 - i]]

returnNodesForFirst(nodesAccessor, count) == Slice(nodesAccessor, 0, count)

InvertDirection(orderDirection) == IF orderDirection = "asc" THEN "desc" ELSE "asc"

\* invertedOrderArray, and order: a scalar again when it holds one direction
InvertedOrder(ascOrDesc) ==
    LET invertedOrderArray ==
            [i \in 1..Len(ascOrDesc.v) |-> InvertDirection(ascOrDesc.v[i])]
    IN  IF Len(invertedOrderArray) = 1 THEN Scalar(invertedOrderArray[1])
        ELSE Arr(invertedOrderArray)

returnNodesForLast(nodesAccessor, count, opts) ==
    LET sortedNodes ==
            applyOrderBy(nodesAccessor,
                         OrderArgs(opts.orderColumn, InvertedOrder(opts.ascOrDesc),
                                   opts.primaryKey))
        lastNodes == Slice(sortedNodes, 0, count)
    IN  Reverse(lastNodes)

returnTotalCount(nodesAccessor) == Len(nodesAccessor)

\* dataValue of convertNodesToEdges: the JSON texts of the order columns,
\* an undefined value left out
RECURSIVE DataValueFrom(_, _, _)
DataValueFrom(node, columns, n) ==
    IF n = 0 THEN <<>>
    ELSE LET prev == DataValueFrom(node, columns, n - 1)
             nodeValue == Get(node, columns[n])
         IN  IF nodeValue.t = "undefined" THEN prev
             ELSE prev \o (IF n - 1 > 0 THEN <<ARRAY_DATA_SEPARATION_TOKEN>> ELSE <<>>)
                       \o JSONStringify(nodeValue)

DataValue(node, orderColumn) == DataValueFrom(node, orderColumn.v, Len(orderColumn.v))

EdgeOf(node, opts) ==
    [cursor |-> cursorGenerator(Get(node, opts.primaryKey), DataValue(node, opts.orderColumn)),
     node |-> node]

\* Variant: the cursor of a node is made from its place in the page
convertNodesToEdgesByPosition(nodes, opts) ==
    [ok |-> TRUE,
     edges |-> [i \in 1..Len(nodes) |->
                  [cursor |-> cursorGenerator(Num(i), DataValue(nodes[i], opts.orderColumn)),
                   node |-> nodes[i]]]]

\* [ok, edges]: ok is FALSE when a node has no primary key
convertNodesToEdges(nodes, opts) ==
    IF \E i \in 1..Len(nodes) : Get(nodes[i], opts.primaryKey).t = "undefined"
    THEN [ok |-> FALSE, edges |-> <<>>]
    ELSE [ok |-> TRUE, edges |-> [i \in 1..Len(nodes) |-> EdgeOf(nodes[i], opts)]]

----------------------------------------------------------------------------
(* The builder: applyCursorsToNodes, nodesToReturn,                        *)
(* apolloCursorPaginationBuilder, and paginateArray which instantiates it  *)

\* if (x): absent, 0 and the empty string are falsy
TruthyNumber(o) == IsSome(o) /\ The(o) # 0
TruthyString(o) == IsSome(o) /\ The(o) # <<>>

Call(op, count) == [op |-> op, count |-> count]

\* What an apply*Cursor call gave, with the calls made so far
Applied(applied, calls) ==
    [ok |-> applied.ok, error |-> applied.error, v |-> applied.v, calls |-> calls]

\* if (after) nodesAccessor = applyAfterCursor(...)
AfterApplied(nodesAccessor, after, opts) ==
    IF TruthyString(after)
    THEN Applied(applyAfterCursor(nodesAccessor, The(after), opts),
                 <<Call("applyAfterCursor", 0)>>)
    ELSE [ok |-> TRUE, error |-> "", v |-> nodesAccessor, calls |-> <<>>]

\* if (before) nodesAccessor = applyBeforeCursor(...)
BeforeApplied(afterApplied, before, opts) ==
    IF afterApplied.ok /\ TruthyString(before)
    THEN Applied(applyBeforeCursor(afterApplied.v, The(before), opts),
                 Append(afterApplied.calls, Call("applyBeforeCursor", 0)))
    ELSE afterApplied

\* [ok, error, v, calls]
applyCursorsToNodes(allNodesAccessor, before, after, opts) ==
    BeforeApplied(AfterApplied(allNodesAccessor, after, opts), before, opts)

\* The messages of the errors nodesToReturn throws (written without the
\* backquotes around the argument names)
BothFirstAndLast == "Cannot specify both first and last arguments"
NegativeFirst == "first argument must not be less than 0"
NegativeLast == "last argument must not be less than 0"
NeitherFirstNorLast == "first or last argument must be provided"

Thrown(error, calls) ==
    [ok |-> FALSE, error |-> error, nodes |-> <<>>,
     hasNextPage |-> FALSE, hasPreviousPage |-> FALSE, calls |-> calls]

\* The page cut from the nodes fetched: one node more than asked for means
\* there is a further page, and the extra node is dropped
ForwardPage(fetched, first, before, after, calls) ==
    IF Len(fetched) > first
    THEN [ok |-> TRUE, error |-> "", nodes |-> Slice(fetched, 0, first),
          hasNextPage |-> TRUE, hasPreviousPage |-> TruthyString(after),
          calls |-> calls]
    ELSE [ok |-> TRUE, error |-> "", nodes |-> fetched,
          hasNextPage |-> TruthyString(before),
          hasPreviousPage |-> TruthyString(after), calls |-> calls]

\* Variant: the flags come from the extra node alone, whatever the cursors
BackwardPageByProbeOnly(fetched, last, before, after, calls) ==
    IF Len(fetched) > last
    THEN [ok |-> TRUE, error |-> "", nodes |-> Slice(fetched, 1, Len(fetched)),
          hasNextPage |-> FALSE, hasPreviousPage |-> TRUE, calls |-> calls]
    ELSE [ok |-> TRUE, error |-> "", nodes |-> fetched,
          hasNextPage |-> FALSE, hasPreviousPage |-> FALSE, calls |-> calls]

BackwardPage(fetched, last, before, after, calls) ==
    IF Len(fetched) > last
    THEN [ok |-> TRUE, error |-> "", nodes |-> Slice(fetched, 1, Len(fetched)),
          hasNextPage |-> TruthyString(before), hasPreviousPage |-> TRUE,
          calls |-> calls]
    ELSE [ok |-> TRUE, error |-> "", nodes |-> fetched,
          hasNextPage |-> TruthyString(before),
          hasPreviousPage |-> TruthyString(after), calls |-> calls]

\* Variant: the forward branch without the extra node that probes for a next page
ForwardSliceNoProbe(nodesAccessor, first, before, after, calls) ==
    ForwardPage(returnNodesForFirst(nodesAccessor, first), first, before, after,
                Append(calls, Call("returnNodesForFirst", first)))

\* The forward branch of nodesToReturn, after the cursors are applied
ForwardSlice(nodesAccessor, first, before, after, calls) ==
    ForwardPage(returnNodesForFirst(nodesAccessor, first + 1), first, before, after,
                Append(calls, Call("returnNodesForFirst", first + 1)))

\* The backward branch of nodesToReturn
BackwardSlice(nodesAccessor, last, before, after, opts, calls) ==
    BackwardPage(returnNodesForLast(nodesAccessor, last + 1, opts), last, before, after,
                 Append(calls, Call("returnNodesForLast", last + 1)))

\* Variant: no check of the sign of first and last
SliceNodesUnsigned(nodesAccessor, before, after, first, last, opts, calls) ==
    IF TruthyNumber(first) /\ TruthyNumber(last)
    THEN Thrown(BothFirstAndLast, calls)
    ELSE IF TruthyNumber(first)
    THEN ForwardSlice(nodesAccessor, The(first), before, after, calls)
    ELSE IF TruthyNumber(last)
    THEN BackwardSlice(nodesAccessor, The(last), before, after, opts, calls)
    ELSE Thrown(NeitherFirstNorLast, calls)

\* Variant: a call without first and last gets the empty page
SliceNodesLenient(nodesAccessor, before, after, first, last, opts, calls) ==
    IF TruthyNumber(first) /\ TruthyNumber(last)
    THEN Thrown(BothFirstAndLast, calls)
    ELSE IF TruthyNumber(first)
    THEN IF The(first) < 0
         THEN Thrown(NegativeFirst, calls)
         ELSE ForwardSlice(nodesAccessor, The(first), before, after, calls)
    ELSE IF TruthyNumber(last)
    THEN IF The(last) < 0
         THEN Thrown(NegativeLast, calls)
         ELSE BackwardSlice(nodesAccessor, The(last), before, after, opts, calls)
    ELSE [ok |-> TRUE, error |-> "", nodes |-> <<>>,
          hasNextPage |-> TruthyString(before),
          hasPreviousPage |-> TruthyString(after), calls |-> calls]

\* Variant: the sign of first and last is checked once the nodes are fetched
SliceNodesCheckingLate(nodesAccessor, before, after, first, last, opts, calls) ==
    IF TruthyNumber(first) /\ TruthyNumber(last)
    THEN Thrown(BothFirstAndLast, calls)
    ELSE IF TruthyNumber(first)
    THEN IF The(first) < 0
         THEN Thrown(NegativeFirst, Append(calls, Call("returnNodesForFirst", 0)))
         ELSE ForwardSlice(nodesAccessor, The(first), before, after, calls)
    ELSE IF TruthyNumber(last)
    THEN IF The(last) < 0
         THEN Thrown(NegativeLast, Append(calls, Call("returnNodesForLast", 0)))
         ELSE BackwardSlice(nodesAccessor, The(last), before, after, opts, calls)
    ELSE Thrown(NeitherFirstNorLast, calls)

\* nodesToReturn from the check of first and last on: the nodes of the page
\* and the two flags, or the error thrown
SliceNodes(nodesAccessor, before, after, first, last, opts, calls) ==
    IF TruthyNumber(first) /\ TruthyNumber(last)
    THEN Thrown(BothFirstAndLast, calls)
    ELSE IF TruthyNumber(first)
    THEN IF The(first) < 0
         THEN Thrown(NegativeFirst, calls)
         ELSE ForwardSlice(nodesAccessor, The(first), before, after, calls)
    ELSE IF TruthyNumber(last)
    THEN IF The(last) < 0
         THEN Thrown(NegativeLast, calls)
         ELSE BackwardSlice(nodesAccessor, The(last), before, after, opts, calls)
    ELSE Thrown(NeitherFirstNorLast, calls)

\* nodesToReturn once the order and the cursors are applied
SliceCursored(cursored, before, after, first, last, opts) ==
    IF ~cursored.ok
    THEN Thrown(cursored.error, <<Call("applyOrderBy", 0)>> \o cursored.calls)
    ELSE SliceNodes(cursored.v, before, after, first, last, opts,
                    <<Call("applyOrderBy", 0)>> \o cursored.calls)

\* Variant: first and last are checked before the order and the cursors are
\* applied
nodesToReturnValidatingFirst(allNodesAccessor, before, after, first, last, opts) ==
    IF ~SliceNodes(<<>>, before, after, first, last, opts, <<>>).ok
    THEN SliceNodes(<<>>, before, after, first, last, opts, <<>>)
    ELSE SliceCursored(applyCursorsToNodes(applyOrderBy(allNodesAccessor, opts),
                                           before, after, opts),
                       before, after, first, last, opts)

\* [ok, error, nodes, hasNextPage, hasPreviousPage, calls]
nodesToReturn(allNodesAccessor, before, after, first, last, opts) ==
    SliceCursored(applyCursorsToNodes(applyOrderBy(allNodesAccessor, opts),
                                      before, after, opts),
                  before, after, first, last, opts)

NoPageInfo ==
    [hasPreviousPage |-> FALSE, hasNextPage |-> FALSE,
     startCursor |-> Absent, endCursor |-> Absent]

Rejected(error, calls) ==
    [status |-> "rejected", error |-> error, edges |-> <<>>,
     pageInfo |-> NoPageInfo, totalCount |-> Absent, calls |-> calls]

\* Variant: endCursor is taken from the first edge
ConnectionEndingAtTheFirstEdge(sliced, converted, totalCount, calls) ==
    IF ~converted.ok
    THEN Rejected("Could not find primary key in node", calls)
    ELSE [status |-> "resolved", error |-> "", edges |-> converted.edges,
          pageInfo |->
              [hasPreviousPage |-> sliced.hasPreviousPage,
               hasNextPage |-> sliced.hasNextPage,
               startCursor |->
                   IF converted.edges = <<>> THEN Absent
                   ELSE Some(converted.edges[1].cursor),
               endCursor |->
                   IF converted.edges = <<>> THEN Absent
                   ELSE Some(converted.edges[1].cursor)],
          totalCount |-> totalCount, calls |-> calls]

\* The settled promise, from the edges on
Connection(sliced, converted, totalCount, calls) ==
    IF ~converted.ok
    THEN Rejected("Could not find primary key in node", calls)
    ELSE [status |-> "resolved", error |-> "", edges |-> converted.edges,
          pageInfo |->
              [hasPreviousPage |-> sliced.hasPreviousPage,
               hasNextPage |-> sliced.hasNextPage,
               startCursor |->
                   IF converted.edges = <<>> THEN Absent
                   ELSE Some(converted.edges[1].cursor),
               endCursor |->
                   IF converted.edges = <<>> THEN Absent
                   ELSE Some(converted.edges[Len(converted.edges)].cursor)],
          totalCount |-> totalCount, calls |-> calls]

\* Variant: totalCount counts the nodes of the page
PaginatedCountingThePage(sliced, allNodesAccessor, opts, options) ==
    IF ~sliced.ok THEN Rejected(sliced.error, sliced.calls)
    ELSE Connection(sliced, convertNodesToEdges(sliced.nodes, opts),
                    Some(returnTotalCount(sliced.nodes)),
                    sliced.calls \o <<Call("returnTotalCount", 0),
                                     Call("convertNodesToEdges", 0)>>)

\* Variant: totalCount is computed whatever skipTotalCount says
PaginatedAlwaysCounting(sliced, allNodesAccessor, opts, options) ==
    IF ~sliced.ok THEN Rejected(sliced.error, sliced.calls)
    ELSE Connection(sliced, convertNodesToEdges(sliced.nodes, opts),
                    Some(returnTotalCount(allNodesAccessor)),
                    sliced.calls \o <<Call("returnTotalCount", 0),
                                     Call("convertNodesToEdges", 0)>>)

\* The modifyEdgeFn of a caller: it adds a field to the edge and marks the
\* cursor
modifyEdgeFn(edge) ==
    [cursor |-> <<"custom:">> \o edge.cursor, node |-> edge.node, custom |-> "test"]

\* if (modifyEdgeFn) edges = edges.map((edge) => modifyEdgeFn(edge))
ModifiedEdges(converted, options) ==
    IF converted.ok /\ options.modifyEdgeFn
    THEN [ok |-> TRUE,
          edges |-> [i \in 1..Len(converted.edges) |-> modifyEdgeFn(converted.edges[i])]]
    ELSE converted

\* The calls from convertNodesToEdges on: modifyEdgeFn once per edge
EdgeCalls(converted, options) ==
    <<Call("convertNodesToEdges", 0)>>
    \o (IF converted.ok /\ options.modifyEdgeFn
        THEN [i \in 1..Len(converted.edges) |-> Call("modifyEdgeFn", 0)]
        ELSE <<>>)

\* Variant: modifyEdgeFn is applied before the total is counted
PaginatedModifyingFirst(sliced, allNodesAccessor, opts, options) ==
    IF ~sliced.ok THEN Rejected(sliced.error, sliced.calls)
    ELSE Connection(sliced,
                    ModifiedEdges(convertNodesToEdges(sliced.nodes, opts), options),
                    IF options.skipTotalCount THEN Absent
                    ELSE Some(returnTotalCount(allNodesAccessor)),
                    sliced.calls
                    \o EdgeCalls(convertNodesToEdges(sliced.nodes, opts), options)
                    \o (IF options.skipTotalCount THEN <<>>
                        ELSE <<Call("returnTotalCount", 0)>>))

\* The builder once nodesToReturn has settled: totalCount, then the edges
Paginated(sliced, allNodesAccessor, opts, options) ==
    IF ~sliced.ok THEN Rejected(sliced.error, sliced.calls)
    ELSE IF ~options.skipTotalCount
    THEN Connection(sliced,
                    ModifiedEdges(convertNodesToEdges(sliced.nodes, opts), options),
                    Some(returnTotalCount(allNodesAccessor)),
                    sliced.calls \o <<Call("returnTotalCount", 0)>>
                    \o EdgeCalls(convertNodesToEdges(sliced.nodes, opts), options))
    ELSE Connection(sliced,
                    ModifiedEdges(convertNodesToEdges(sliced.nodes, opts), options),
                    Absent,
                    sliced.calls
                    \o EdgeCalls(convertNodesToEdges(sliced.nodes, opts), options))

\* orderDirection = 'asc' and orderBy = primaryKey when the arguments lack them
OptsOf(args, primaryKey) ==
    OrderArgs(IF IsSome(args.orderBy) THEN The(args.orderBy) ELSE Scalar(primaryKey),
              IF IsSome(args.orderDirection) THEN The(args.orderDirection)
              ELSE Scalar("asc"),
              primaryKey)

\* Variant: totalCount counts the ordered accessor the cursors have bounded
BuildWithCountOfTheBounded(allNodesAccessor, args, options, opts) ==
    Paginated(nodesToReturn(allNodesAccessor, args.before, args.after,
                            args.first, args.last, opts),
              applyCursorsToNodes(applyOrderBy(allNodesAccessor, opts),
                                  args.before, args.after, opts).v,
              opts, options)

\* args: [before, after, first, last, orderBy, orderDirection], each optional;
\* options: [skipTotalCount, primaryKey]
BuildWith(allNodesAccessor, args, options, opts) ==
    Paginated(nodesToReturn(allNodesAccessor, args.before, args.after,
                            args.first, args.last, opts),
              allNodesAccessor, opts, options)

apolloCursorPaginationBuilder(allNodesAccessor, args, options) ==
    BuildWith(allNodesAccessor, args, options, OptsOf(args, options.primaryKey))

\* Variant: the builder keeps a count of the invocations made before and
\* adds it to totalCount
paginateArrayCountingInvocations(arr, args, options) ==
    [apolloCursorPaginationBuilder(arr, args, options) EXCEPT
        !.totalCount = IF IsSome(@) THEN Some(The(@) + Len(pages)) ELSE @]

paginateArray(arr, args, options) == apolloCursorPaginationBuilder(arr, args, options)

----------------------------------------------------------------------------
(* What a call does to the caller's array.  An array an operator holds is  *)
(* [input, cur, alias]: cur its elements, alias whether it is the caller's *)
(* own array object, input the elements of the caller's array.             *)

Held(input, cur, alias) == [input |-> input, cur |-> cur, alias |-> alias]

\* sort and reverse change the array they are called on
InPlace(x, values) == Held(IF x.alias THEN values ELSE x.input, values, x.alias)

\* Variant: spread, map, filter and slice hand back the array they were given
FreshAliasing(x, values) == InPlace(x, values)

\* [...arr], map, filter and slice make a new array
Fresh(x, values) == Held(x.input, values, FALSE)

\* applyOrderBy: spread, decorate, sort in place, undecorate
OrderedHeld(x, opts) ==
    Fresh(InPlace(Fresh(Fresh(x, x.cur), Decorate(x.cur)),
                  SortDecorated(Decorate(x.cur), Len(x.cur), opts.orderColumn.v,
                                opts.ascOrDesc.v, opts.primaryKey)),
          applyOrderBy(x.cur, opts))

\* The cursor filters: spread, then filter column by column
FilteredHeld(x, cursored) ==
    IF cursored.ok THEN Fresh(Fresh(x, x.cur), cursored.v) ELSE x

\* returnNodesForLast: applyOrderBy inverted, slice, reverse in place
LastHeld(x, count, opts) ==
    InPlace(Fresh(OrderedHeld(x, OrderArgs(opts.orderColumn,
                                           InvertedOrder(opts.ascOrDesc),
                                           opts.primaryKey)),
                  Slice(applyOrderBy(x.cur, OrderArgs(opts.orderColumn,
                                                      InvertedOrder(opts.ascOrDesc),
                                                      opts.primaryKey)), 0, count)),
            returnNodesForLast(x.cur, count, opts))

\* The slice call of the branch taken, if the call gets that far
SlicedHeld(x, cursored, args, opts) ==
    IF ~cursored.ok \/ (TruthyNumber(args.first) /\ TruthyNumber(args.last)) THEN x
    ELSE IF TruthyNumber(args.first)
    THEN IF The(args.first) < 0 THEN x
         ELSE Fresh(x, returnNodesForFirst(x.cur, The(args.first) + 1))
    ELSE IF TruthyNumber(args.last) /\ The(args.last) >= 0
    THEN LastHeld(x, The(args.last) + 1, opts)
    ELSE x

CursoredHeld(ordered, args, opts) ==
    SlicedHeld(FilteredHeld(ordered, applyCursorsToNodes(ordered.cur, args.before,
                                                         args.after, opts)),
               applyCursorsToNodes(ordered.cur, args.before, args.after, opts),
               args, opts)

\* The caller's array once paginateArray(arr, args, options) has settled
ArrayAfter(arr, args, options) ==
    CursoredHeld(OrderedHeld(Held(arr, arr, TRUE), OptsOf(args, options.primaryKey)),
                 args, OptsOf(args, options.primaryKey)).input

----------------------------------------------------------------------------
(* The callers of paginateArray: a collection that is filled, then paged   *)

NoParams == [none |-> TRUE]
NoResult == [status |-> "none"]
NoOut == [op |-> "none"]

DefaultOptions == [skipTotalCount |-> FALSE, primaryKey |-> "id", modifyEdgeFn |-> FALSE]

\* The values of the data column of the paged collection
Vals == {Num(1), Num(2)}

\* Nodes get auto-incremented primary keys
NewNode(v) == [id |-> Num(Len(array) + 1), a |-> v]

\* The orderings a call may ask for: none (the primary key ascending), or
\* one column with a direction
Orderings ==
    {[orderBy |-> Absent, orderDirection |-> Absent],
     [orderBy |-> Absent, orderDirection |-> Some(Scalar("desc"))]}
    \cup {[orderBy |-> Some(Scalar("a")), orderDirection |-> Some(Scalar(d))] :
            d \in {"asc", "desc"}}

\* The order arguments the builder hands to the adapter for an ordering
OrderOf(ordering) == OptsOf(ordering, DefaultOptions.primaryKey)

\* A cursor no encode produced
BadCursor == <<"garbage">>

\* The cursors a client may hold for an ordering: the cursor of every node,
\* as convertNodesToEdges makes it, and a malformed one
CursorsOf(arr, ordering) ==
    {EdgeOf(arr[i], OrderOf(ordering)).cursor : i \in 1..Len(arr)} \cup {BadCursor}

OptCursors(arr, ordering) == {Absent} \cup {Some(c) : c \in CursorsOf(arr, ordering)}

OptCounts == {Absent} \cup {Some(k) : k \in -1..MaxCount}

Args(first, last, after, before, ordering) ==
    [first |-> first, last |-> last, after |-> after, before |-> before,
     orderBy |-> ordering.orderBy, orderDirection |-> ordering.orderDirection]

Entry(args, res) == [params |-> args, result |-> res]

Init ==
    /\ array = <<>>
    /\ params = NoParams
    /\ result = NoResult
    /\ pages = <<>>
    /\ out = NoOut

\* The caller keeps the array oldest first (array.push) or newest first
\* (array.unshift); the nodes are stored before the paging starts
OldestFirst == \A i \in 1..Len(array) : array[i].id = Num(i)
NewestFirst == \A i \in 1..Len(array) : array[i].id = Num(Len(array) + 1 - i)

Push(v) ==
    /\ params = NoParams
    /\ Len(array) < MaxNodes
    /\ OldestFirst
    /\ array' = Append(array, NewNode(v))
    /\ UNCHANGED <<params, result, pages, out>>

Unshift(v) ==
    /\ params = NoParams
    /\ Len(array) < MaxNodes
    /\ NewestFirst
    /\ array' = <<NewNode(v)>> \o array
    /\ UNCHANGED <<params, result, pages, out>>

\* One call of paginateArray by a client that holds nothing, from the call to
\* the settling of its promise
Paginate ==
    /\ params = NoParams
    /\ \E ordering \in Orderings :
         \E first \in OptCounts, last \in OptCounts :
           \E after \in OptCursors(array, ordering),
              before \in OptCursors(array, ordering) :
             /\ params' = Args(first, last, after, before, ordering)
             /\ result' = paginateArray(array, params', DefaultOptions)
             /\ pages' = <<Entry(params', result')>>
             /\ array' = ArrayAfter(array, params', DefaultOptions)
    /\ UNCHANGED out

\* The paging client follows the last page forward: the same call with
\* after set to that page's endCursor
LastEntry == pages[Len(pages)]
MaxPages == MaxNodes + 2

NextPage ==
    /\ pages # <<>>
    /\ Len(pages) < MaxPages
    /\ LastEntry.result.status = "resolved"
    /\ LastEntry.result.pageInfo.hasNextPage
    /\ TruthyNumber(LastEntry.params.first)
    /\ LET args == [LastEntry.params EXCEPT
                        !.after = LastEntry.result.pageInfo.endCursor]
       IN  /\ params' = args
           /\ result' = paginateArray(array, args, DefaultOptions)
           /\ pages' = Append(pages, Entry(args, result'))
           /\ array' = ArrayAfter(array, args, DefaultOptions)
    /\ UNCHANGED out

\* The paging client turns back: last: k, before: the startCursor of the
\* page it holds, k the count it paged forward with
PreviousPage ==
    /\ pages # <<>>
    /\ Len(pages) < MaxPages
    /\ LastEntry.result.status = "resolved"
    /\ TruthyNumber(LastEntry.params.first)
    /\ IsSome(LastEntry.result.pageInfo.startCursor)
    /\ LET args == [LastEntry.params EXCEPT
                        !.first = Absent, !.after = Absent,
                        !.last = LastEntry.params.first,
                        !.before = LastEntry.result.pageInfo.startCursor]
       IN  /\ params' = args
           /\ result' = paginateArray(array, args, DefaultOptions)
           /\ pages' = Append(pages, Entry(args, result'))
           /\ array' = ArrayAfter(array, args, DefaultOptions)
    /\ UNCHANGED out

\* The client drops what it holds
Forget ==
    /\ params # NoParams
    /\ params' = NoParams
    /\ result' = NoResult
    /\ pages' = <<>>
    /\ UNCHANGED <<array, out>>

Next ==
    \/ \E v \in Vals : Push(v)
    \/ \E v \in Vals : Unshift(v)
    \/ Paginate
    \/ NextPage
    \/ PreviousPage
    \/ Forget

Spec == Init /\ [][Next]_vars

----------------------------------------------------------------------------
(* A caller that makes the same call twice: as it is, with skipTotalCount  *)
(* switched, or after another node was stored                              *)

SkippingOptions == [skipTotalCount |-> TRUE, primaryKey |-> "id", modifyEdgeFn |-> FALSE]
CallOptions == {DefaultOptions, SkippingOptions}
ModifyingOptions == [skipTotalCount |-> FALSE, primaryKey |-> "id", modifyEdgeFn |-> TRUE]
RepeatedOptions == CallOptions \cup {ModifyingOptions}

StoredOfLen(n) ==
    {[i \in 1..n |-> [id |-> Num(i), a |-> va[i]]] : va \in [1..n -> Vals]}

Stored == UNION {StoredOfLen(n) : n \in 0..MaxNodes}

\* One invocation as the caller saw it
Invocation(accessor, args, options) ==
    [accessor |-> accessor, params |-> args, options |-> options,
     result |-> paginateArray(accessor, args, options)]

InitRepeated ==
    /\ array \in Stored
    /\ params = NoParams
    /\ result = NoResult
    /\ pages = <<>>
    /\ out = NoOut

\* The calls of this caller page one way, from at most one cursor
OneOf(first, second) == first = Absent \/ second = Absent

FirstCall ==
    /\ pages = <<>>
    /\ \E ordering \in Orderings, options \in RepeatedOptions :
         \E first \in OptCounts, last \in OptCounts :
           \E after \in OptCursors(array, ordering),
              before \in OptCursors(array, ordering) :
             /\ OneOf(first, last)
             /\ OneOf(after, before)
             /\ params' = Args(first, last, after, before, ordering)
             /\ pages' = <<Invocation(array, params', options)>>
             /\ result' = pages'[1].result
    /\ UNCHANGED <<array, out>>

\* The same call once more
Repeat ==
    /\ Len(pages) = 1
    /\ pages' = Append(pages, Invocation(array, params, pages[1].options))
    /\ result' = pages'[2].result
    /\ UNCHANGED <<array, params, out>>

\* The same call with skipTotalCount the other way round
RepeatWithSkipSwitched ==
    /\ Len(pages) = 1
    /\ pages' = Append(pages, Invocation(array, params,
                            [pages[1].options EXCEPT
                                !.skipTotalCount = ~pages[1].options.skipTotalCount]))
    /\ result' = pages'[2].result
    /\ UNCHANGED <<array, params, out>>

\* db.insert({id: 0}) or a node with the next primary key, then the same call
InsertAndRepeat(node) ==
    /\ Len(pages) = 1
    /\ array' = IF node.id = Num(0) THEN <<node>> \o array ELSE Append(array, node)
    /\ pages' = Append(pages, Invocation(array', params, pages[1].options))
    /\ result' = pages'[2].result
    /\ UNCHANGED <<params, out>>

InsertedNodes == {[id |-> Num(i), a |-> v] : i \in {0, Len(array) + 1}, v \in Vals}

NextRepeated ==
    \/ FirstCall
    \/ Repeat
    \/ RepeatWithSkipSwitched
    \/ \E node \in InsertedNodes : InsertAndRepeat(node)

SpecRepeated == InitRepeated /\ [][NextRepeated]_vars

----------------------------------------------------------------------------
(* Two invocations of paginateArray over one collection, each suspended at *)
(* its awaits: of returnNodesForFirst/returnNodesForLast, and of           *)
(* returnTotalCount.  pages holds the frame of each invocation.            *)

NotFetched == [none |-> TRUE]

\* The frame of an invocation: its arguments and what it has awaited so far
Frame(args, options) ==
    [params |-> args, options |-> options, pc |-> "start",
     sliced |-> NotFetched, result |-> NoResult]

\* The calls made concurrently: forward or backward, from the start or from
\* the cursor of the node in the middle, for no node or MaxCount nodes, with
\* or without totalCount
MiddleCursor(ordering) == EdgeOf(array[(Len(array) + 1) \div 2], OrderOf(ordering)).cursor
ConcurrentOrderings ==
    {[orderBy |-> Absent, orderDirection |-> Absent],
     [orderBy |-> Some(Scalar("a")), orderDirection |-> Some(Scalar("desc"))]}
ConcurrentCalls ==
    {Args(IF forward THEN Some(k) ELSE Absent, IF forward THEN Absent ELSE Some(k),
          IF forward /\ cursored THEN Some(MiddleCursor(ordering)) ELSE Absent,
          IF ~forward /\ cursored THEN Some(MiddleCursor(ordering)) ELSE Absent,
          ordering) :
        forward \in BOOLEAN, cursored \in BOOLEAN, k \in {0, MaxCount},
        ordering \in ConcurrentOrderings}

InitInterleaved ==
    /\ array \in StoredOfLen(MaxNodes)
    /\ params = NoParams
    /\ result = NoResult
    /\ pages = <<>>
    /\ out = NoOut

\* Variant: the nodes fetched last are kept in one place for all invocations
FetchedByTheOther(i) ==
    IF Len(pages) = 2 /\ pages[3 - i].sliced # NotFetched
    THEN pages[3 - i].sliced
    ELSE pages[i].sliced

\* const { nodes, hasPreviousPage, hasNextPage } of invocation i
FetchedBy(i) == pages[i].sliced

OptsOfFrame(i) == OptsOf(pages[i].params, pages[i].options.primaryKey)

\* What nodesToReturn of invocation i comes to
SlicedFor(i) ==
    nodesToReturn(array, pages[i].params.before, pages[i].params.after,
                  pages[i].params.first, pages[i].params.last, OptsOfFrame(i))

Invoke(args, options) ==
    /\ Len(pages) < 2
    /\ pages' = Append(pages, Frame(args, options))
    /\ UNCHANGED <<array, params, result, out>>

\* The invocation runs up to its first await: it orders, applies the cursors,
\* checks first and last and calls returnNodesForFirst or returnNodesForLast;
\* an error thrown on the way settles it
CallReturnNodes(i) ==
    /\ pages[i].pc = "start"
    /\ pages' = [pages EXCEPT ![i] =
                    IF SlicedFor(i).ok THEN [@ EXCEPT !.pc = "awaitingNodes"]
                    ELSE [@ EXCEPT !.pc = "done",
                                   !.result = Rejected(SlicedFor(i).error,
                                                       SlicedFor(i).calls)]]
    /\ UNCHANGED <<array, params, result, out>>

\* The nodes have come: nodesToReturn sets the flags and returns; the builder
\* calls returnTotalCount and awaits it, or, skipping it, builds the edges
CallReturnTotalCount(i) ==
    /\ pages[i].pc = "awaitingNodes"
    /\ pages' = [pages EXCEPT ![i] =
                    IF pages[i].options.skipTotalCount
                    THEN [@ EXCEPT !.pc = "done", !.sliced = SlicedFor(i),
                                   !.result = Paginated(SlicedFor(i), array, OptsOfFrame(i),
                                                        pages[i].options)]
                    ELSE [@ EXCEPT !.pc = "awaitingCount", !.sliced = SlicedFor(i)]]
    /\ UNCHANGED <<array, params, result, out>>

\* The count has come: the builder builds the edges and settles
Settle(i) ==
    /\ pages[i].pc = "awaitingCount"
    /\ pages' = [pages EXCEPT ![i] =
                    [@ EXCEPT !.pc = "done",
                              !.result = Paginated(FetchedBy(i), array, OptsOfFrame(i),
                                                   pages[i].options)]]
    /\ UNCHANGED <<array, params, result, out>>

NextInterleaved ==
    \/ \E args \in ConcurrentCalls, options \in CallOptions : Invoke(args, options)
    \/ \E i \in 1..Len(pages) : CallReturnNodes(i)
    \/ \E i \in 1..Len(pages) : CallReturnTotalCount(i)
    \/ \E i \in 1..Len(pages) : Settle(i)

SpecInterleaved == InitInterleaved /\ [][NextInterleaved]_vars

----------------------------------------------------------------------------
(* The builder over any adapter: returnNodesForFirst and returnNodesForLast *)
(* may return any number of the nodes, also more than they were asked for  *)

InitAdapters ==
    /\ array \in Stored
    /\ params = NoParams
    /\ result = NoResult
    /\ pages = <<>>
    /\ out = NoOut

\* first: k, the adapter returning the first n nodes of the accessor
FetchForward(k, n) ==
    /\ out = NoOut
    /\ n <= Len(array)
    /\ out' = [op |-> "first", count |-> k, fetched |-> n,
               res |-> Paginated(ForwardPage(Slice(array, 0, n), k, Absent, Absent,
                                             <<Call("applyOrderBy", 0),
                                               Call("returnNodesForFirst", k + 1)>>),
                                 array, OrderOf(Args(Some(k), Absent, Absent, Absent,
                                                     [orderBy |-> Absent,
                                                      orderDirection |-> Absent])),
                                 DefaultOptions)]
    /\ UNCHANGED <<array, params, result, pages>>

\* last: k, the adapter returning the last n nodes of the accessor
FetchBackward(k, n) ==
    /\ out = NoOut
    /\ n <= Len(array)
    /\ out' = [op |-> "last", count |-> k, fetched |-> n,
               res |-> Paginated(BackwardPage(Slice(array, Len(array) - n, Len(array)), k, Absent, Absent,
                                              <<Call("applyOrderBy", 0),
                                                Call("returnNodesForLast", k + 1)>>),
                                 array, OrderOf(Args(Absent, Some(k), Absent, Absent,
                                                     [orderBy |-> Absent,
                                                      orderDirection |-> Absent])),
                                 DefaultOptions)]
    /\ UNCHANGED <<array, params, result, pages>>

NextAdapters ==
    \/ \E k \in 1..MaxCount, n \in 0..MaxNodes : FetchForward(k, n)
    \/ \E k \in 1..MaxCount, n \in 0..MaxNodes : FetchBackward(k, n)

SpecAdapters == InitAdapters /\ [][NextAdapters]_vars

----------------------------------------------------------------------------
(* The cursor codec on its own: a node is converted to an edge and the     *)
(* cursor of the edge is read back                                         *)

\* Column values and primary keys: numbers, null, strings (one of them with a
\* separation token in it), and none at all
CodecVals ==
    {Num(1), Null, Str(<<>>), Str(<<"a">>), Str(<<"a", SEPARATION_TOKEN, "b">>),
     Str(<<"a", ARRAY_DATA_SEPARATION_TOKEN, "b">>), Undefined}
CodecKeys == {Num(1), Str(<<"k">>), Str(<<"k", SEPARATION_TOKEN, "1">>), Undefined}

CodecOrders ==
    {OrderArgs(Scalar("a"), Scalar("asc"), "id"),
     OrderArgs(Arr(<<"a", "b">>), Arr(<<"asc", "asc">>), "id")}

InitCodec ==
    /\ array \in {<<[id |-> k, a |-> va, b |-> vb]>> :
                     k \in CodecKeys, va \in CodecVals, vb \in CodecVals}
    /\ params = NoParams
    /\ result = NoResult
    /\ pages = <<>>
    /\ out = NoOut

ConvertNodesToEdges(opts) ==
    /\ out = NoOut
    /\ out' = [op |-> "convertNodesToEdges", opts |-> opts,
               converted |-> convertNodesToEdges(array, opts)]
    /\ UNCHANGED <<array, params, result, pages>>

GetDataFromCursor ==
    /\ out.op = "convertNodesToEdges"
    /\ out.converted.ok
    /\ out' = [op |-> "getDataFromCursor", opts |-> out.opts,
               converted |-> out.converted,
               data |-> getDataFromCursor(out.converted.edges[1].cursor)]
    /\ UNCHANGED <<array, params, result, pages>>

NextCodec ==
    \/ \E opts \in CodecOrders : ConvertNodesToEdges(opts)
    \/ GetDataFromCursor

SpecCodec == InitCodec /\ [][NextCodec]_vars

----------------------------------------------------------------------------
(* The operators of the array adapter, applied on their own to collections  *)
(* with two data columns whose values may repeat and may be null; the first *)
(* column may also be missing from a node (undefined)                       *)

NullableVals == Vals \cup {Null}

MissingVals == NullableVals \cup {Undefined}

NodesOfLen(n) ==
    {[i \in 1..n |-> [id |-> Num(i), a |-> va[i], b |-> vb[i]]] :
        va \in [1..n -> MissingVals], vb \in [1..n -> NullableVals]}

Collections == UNION {NodesOfLen(n) : n \in 0..MaxNodes}

Directions == {"asc", "desc"}

\* One column (the primary key or a data column) as a scalar, or columns and
\* directions as arrays
OperatorOrders ==
    {OrderArgs(Scalar(c), Scalar(d), "id") : c \in {"id", "a"}, d \in Directions}
    \cup {OrderArgs(Arr(<<"a">>), Arr(<<d>>), "id") : d \in Directions}
    \cup {OrderArgs(Arr(<<"a", "b">>), Arr(<<d1, d2>>), "id") :
            d1 \in Directions, d2 \in Directions}

\* The nodes of the collection
Nodes == {array[i] : i \in 1..Len(array)}

InitOperators ==
    /\ array \in Collections
    /\ params = NoParams
    /\ result = NoResult
    /\ pages = <<>>
    /\ out = NoOut

\* Array.prototype.sort leaves the order implementation-defined when the
\* comparator is not consistent.  The comparator of applyOrderBy is consistent
\* on a collection when of any two of its nodes exactly one goes first.
ComparatorIsConsistent(nodes, opts) ==
    \A i, j \in 1..Len(nodes) :
        i # j =>
            (SortCompare(Decorate(nodes)[i], Decorate(nodes)[j], opts.orderColumn.v,
                         opts.ascOrDesc.v, opts.primaryKey) < 0)
            # (SortCompare(Decorate(nodes)[j], Decorate(nodes)[i], opts.orderColumn.v,
                           opts.ascOrDesc.v, opts.primaryKey) < 0)

Arrangements(nodes) ==
    {[i \in 1..Len(nodes) |-> nodes[f[i]]] :
        f \in {g \in [1..Len(nodes) -> 1..Len(nodes)] :
                  \A i, j \in 1..Len(nodes) : i # j => g[i] # g[j]}}

\* What applyOrderBy may return: the sorted array, or any arrangement when
\* the comparator is inconsistent on the nodes
SortOutcomes(nodes, opts) ==
    IF ComparatorIsConsistent(nodes, opts) THEN {applyOrderBy(nodes, opts)}
    ELSE Arrangements(nodes)

ApplyOrderBy(opts) ==
    /\ out = NoOut
    /\ \E sorted \in SortOutcomes(array, opts) :
         out' = [op |-> "applyOrderBy", opts |-> opts, nodes |-> sorted]
    /\ UNCHANGED <<array, params, result, pages>>

\* applyAfterCursor on the ordered collection, with the cursor of its node x
\* (the cursor operators and returnNodesForLast are applied to the collections
\* that applyOrderBy orders in one way)
ApplyAfterCursor(opts, x) ==
    /\ out = NoOut
    /\ ComparatorIsConsistent(array, opts)
    /\ LET kept == applyAfterCursor(applyOrderBy(array, opts), EdgeOf(x, opts).cursor, opts)
       IN  out' = [op |-> "applyAfterCursor", opts |-> opts, x |-> x,
                   ok |-> kept.ok, nodes |-> kept.v]
    /\ UNCHANGED <<array, params, result, pages>>

ApplyBeforeCursor(opts, x) ==
    /\ out = NoOut
    /\ ComparatorIsConsistent(array, opts)
    /\ LET kept == applyBeforeCursor(applyOrderBy(array, opts), EdgeOf(x, opts).cursor, opts)
       IN  out' = [op |-> "applyBeforeCursor", opts |-> opts, x |-> x,
                   ok |-> kept.ok, nodes |-> kept.v]
    /\ UNCHANGED <<array, params, result, pages>>

ReturnNodesForLast(opts, count) ==
    /\ out = NoOut
    /\ ComparatorIsConsistent(array, opts)
    /\ out' = [op |-> "returnNodesForLast", opts |-> opts, count |-> count,
               nodes |-> returnNodesForLast(array, count, opts)]
    /\ UNCHANGED <<array, params, result, pages>>

\* The ordering by the first column alone of an ordering by several columns
FirstColumnOf(opts) ==
    OrderArgs(Scalar(opts.orderColumn.v[1]), Scalar(opts.ascOrDesc.v[1]), opts.primaryKey)

\* Cursors a client may send that the ordering of the call did not make: one
\* without separator, and those a call ordered by the first column returned
ForeignCursors(opts) ==
    {BadCursor} \cup {EdgeOf(x, FirstColumnOf(opts)).cursor : x \in Nodes}

\* A call of paginateArray, ordered by two columns, with such a cursor as
\* after or as before
PaginateWithCursor(opts, cursor, side) ==
    /\ out = NoOut
    /\ Len(opts.orderColumn.v) = 2
    /\ ComparatorIsConsistent(array, opts)
    /\ out' = [op |-> "paginateArray", opts |-> opts, cursor |-> cursor, side |-> side,
               res |-> paginateArray(array,
                          [first |-> IF side = "after" THEN Some(MaxCount) ELSE Absent,
                           last |-> IF side = "before" THEN Some(MaxCount) ELSE Absent,
                           after |-> IF side = "after" THEN Some(cursor) ELSE Absent,
                           before |-> IF side = "before" THEN Some(cursor) ELSE Absent,
                           orderBy |-> Some(opts.orderColumn),
                           orderDirection |-> Some(opts.ascOrDesc)],
                          DefaultOptions)]
    /\ UNCHANGED <<array, params, result, pages>>

NextOperators ==
    \/ \E opts \in OperatorOrders : ApplyOrderBy(opts)
    \/ \E opts \in OperatorOrders, x \in Nodes : ApplyAfterCursor(opts, x)
    \/ \E opts \in OperatorOrders, x \in Nodes : ApplyBeforeCursor(opts, x)
    \/ \E opts \in OperatorOrders : \E count \in 1..(MaxCount + 1) :
         ReturnNodesForLast(opts, count)
    \/ \E opts \in OperatorOrders, side \in {"after", "before"} :
         \E cursor \in ForeignCursors(opts) : PaginateWithCursor(opts, cursor, side)

SpecOperators == InitOperators /\ [][NextOperators]_vars

----------------------------------------------------------------------------
(* The Knex adapter.  A query builder is [table, wheres, orders]: table the *)
(* rows of the table in storage order, wheres the groups joined by AND,     *)
(* each group its raw clauses joined by OR, orders the ORDER BY terms.      *)
(* The columns of the tables hold numbers; orderColumn and ascOrDesc are    *)
(* both scalars or both arrays of one length.                               *)

\* knex(table): the query of all rows
KnexQuery(table) == [table |-> table, wheres |-> <<>>, orders |-> <<>>]

\* prev.orderBy(column, direction)
KnexOrderBy(prev, column, direction) ==
    [prev EXCEPT !.orders = Append(@, [column |-> column, direction |-> direction])]

\* The raw clauses of the filter and their bindings:
\* (?? comparator ?)
CompareRaw(column, comparator, value) ==
    [raw |-> "compare", eqColumn |-> column, eqValue |-> value,
     column |-> column, comparator |-> comparator, value |-> value]

\* (?? = ? and ?? comparator ?)
EqAndCompareRaw(eqColumn, eqValue, column, comparator, value) ==
    [raw |-> "eqAndCompare", eqColumn |-> eqColumn, eqValue |-> eqValue,
     column |-> column, comparator |-> comparator, value |-> value]

\* (?? comparator ?) or (?? IS NOT NULL); eqColumn is the column of IS NOT NULL
CompareOrNotNullRaw(column, comparator, value, notNullColumn) ==
    [raw |-> "compareOrNotNull", eqColumn |-> notNullColumn, eqValue |-> Null,
     column |-> column, comparator |-> comparator, value |-> value]

\* A bound value as the database compares it with a numeric column: the text
\* of the cursor's id is read as a number
SqlValue(v) == IF v.t = "string" THEN StringToNumber(v.s) ELSE v

\* a comparator b in SQL: never true when an operand is NULL
SqlCompare(comparator, a, b) ==
    LET x == SqlValue(a)
        y == SqlValue(b)
    IN  /\ x.t = "number"
        /\ y.t = "number"
        /\ CASE comparator = "<" -> x.n < y.n
             [] comparator = ">" -> x.n > y.n
             [] OTHER -> x.n = y.n

\* Whether a row satisfies a raw clause
HoldsRaw(clause, row) ==
    CASE clause.raw = "compare" ->
            SqlCompare(clause.comparator, Get(row, clause.column), clause.value)
      [] clause.raw = "eqAndCompare" ->
            /\ SqlCompare("=", Get(row, clause.eqColumn), clause.eqValue)
            /\ SqlCompare(clause.comparator, Get(row, clause.column), clause.value)
      [] OTHER ->
            \/ SqlCompare(clause.comparator, Get(row, clause.column), clause.value)
            \/ Get(row, clause.eqColumn).t = "number"

\* WHERE: every group holds, a group holds when one of its clauses does
HoldsWhere(wheres, row) ==
    \A g \in 1..Len(wheres) : \E c \in 1..Len(wheres[g]) : HoldsRaw(wheres[g][c], row)

\* ORDER BY: whether row r sorts strictly before row s by the terms from the
\* i-th on
RECURSIVE SqlGoesFirst(_, _, _, _)
SqlGoesFirst(r, s, orders, i) ==
    IF i > Len(orders) THEN FALSE
    ELSE LET x == Get(r, orders[i].column)
             y == Get(s, orders[i].column)
         IN  IF x.n = y.n THEN SqlGoesFirst(r, s, orders, i + 1)
             ELSE IF orders[i].direction = "asc" THEN x.n < y.n
             ELSE x.n > y.n

\* The results the database may give for a query: the rows that satisfy
\* WHERE, in any sequence that agrees with ORDER BY
KnexRows(query) ==
    {s \in Arrangements(SelectSeq(query.table, LAMBDA row : HoldsWhere(query.wheres, row))) :
        \A i, j \in 1..Len(s) : i < j => ~SqlGoesFirst(s[j], s[i], query.orders, 1)}

\* operateOverScalarOrArray as applyOrderBy uses it: the first n columns
RECURSIVE KnexOrderColumns(_, _, _)
KnexOrderColumns(prev, n, opts) ==
    IF n = 0 THEN prev
    ELSE KnexOrderBy(KnexOrderColumns(prev, n - 1, opts), opts.orderColumn.v[n],
                     IF opts.ascOrDesc.isArray THEN opts.ascOrDesc.v[n]
                     ELSE opts.ascOrDesc.v[1])

\* applyOrderBy of the Knex adapter: the order columns, then the primary key
\* in the direction ascOrDesc[0] (of an array) or ascOrDesc (a scalar)
knexApplyOrderBy(nodesAccessor, opts) ==
    KnexOrderBy(KnexOrderColumns(nodesAccessor, Len(opts.orderColumn.v), opts),
                opts.primaryKey, opts.ascOrDesc.v[1])

\* The operation run per order column on the group of clauses; index is
\* Absent for a scalar orderColumn and Some(i), 0-based, for the i-th column
KnexFilterOperation(beforeOrAfter, orderBy, index, prev, opts, values) ==
    LET useArray == opts.ascOrDesc.isArray /\ IsSome(index)
        orderDirection ==
            IF useArray THEN opts.ascOrDesc.v[The(index) + 1]
            ELSE IF ~opts.ascOrDesc.isArray THEN opts.ascOrDesc.v[1]
            ELSE "asc"
        currValue == IF useArray THEN At(values, The(index)) ELSE At(values, 0)
        comparator == getComparator(beforeOrAfter, orderDirection)
    IN  IF IsSome(index) /\ The(index) > 0
        THEN Append(prev, EqAndCompareRaw(opts.orderColumn.v[The(index)],
                                          At(values, The(index) - 1),
                                          orderBy, comparator, At(values, The(index))))
        ELSE IF IsNullish(currValue) THEN prev
        ELSE Append(prev, CompareRaw(orderBy, comparator, currValue))

\* operateResult of the filter: the primary key after the last order column
KnexFilterResult(beforeOrAfter, prev, opts, id, values) ==
    LET lastOrderDirection == opts.ascOrDesc.v[Len(opts.ascOrDesc.v)]
        comparator == getComparator(beforeOrAfter, lastOrderDirection)
        lastOrderColumn == opts.orderColumn.v[Len(opts.orderColumn.v)]
        lastValue == IF values = <<>> THEN Undefined ELSE values[Len(values)]
    IN  IF IsNullish(lastValue)
        THEN Append(prev, CompareOrNotNullRaw(opts.primaryKey, comparator, Str(id),
                                              lastOrderColumn))
        ELSE Append(prev, EqAndCompareRaw(lastOrderColumn, lastValue,
                                          opts.primaryKey, comparator, Str(id)))

RECURSIVE KnexFilterColumns(_, _, _, _, _)
KnexFilterColumns(beforeOrAfter, n, prev, opts, values) ==
    IF n = 0 THEN prev
    ELSE KnexFilterOperation(beforeOrAfter, opts.orderColumn.v[n], Some(n - 1),
                             KnexFilterColumns(beforeOrAfter, n - 1, prev, opts, values),
                             opts, values)

\* executeFilterQuery: the group of clauses built on an empty group
knexExecuteFilterQuery(beforeOrAfter, opts, id, values) ==
    LET filtered ==
            IF opts.orderColumn.isArray
            THEN KnexFilterColumns(beforeOrAfter, Len(opts.orderColumn.v), <<>>, opts, values)
            ELSE KnexFilterOperation(beforeOrAfter, opts.orderColumn.v[1], Absent, <<>>,
                                     opts, values)
    IN  KnexFilterResult(beforeOrAfter, filtered, opts, id, values)

\* The filter returned by buildRemoveNodesFromBeforeOrAfter (isAggregateFn
\* not given): initialValue.andWhere(the group).  [ok, error, v]: ok is FALSE
\* when getDataFromCursor threw
KnexRemoveNodes(beforeOrAfter, nodesAccessor, opts, data) ==
    IF ~data.ok THEN [ok |-> FALSE, error |-> data.error, v |-> nodesAccessor]
    ELSE [ok |-> TRUE, error |-> "",
          v |-> [nodesAccessor EXCEPT !.wheres =
                    Append(@, knexExecuteFilterQuery(beforeOrAfter, opts,
                                                     data.id, data.values))]]

knexApplyAfterCursor(nodesAccessor, cursor, opts) ==
    KnexRemoveNodes("before", nodesAccessor, opts, getDataFromCursor(cursor))

knexApplyBeforeCursor(nodesAccessor, cursor, opts) ==
    KnexRemoveNodes("after", nodesAccessor, opts, getDataFromCursor(cursor))

\* Tables: rows with numeric primary keys and two numeric data columns
\* whose values may repeat
RowsOfLen(n) ==
    {[i \in 1..n |-> [id |-> Num(i), a |-> va[i], b |-> vb[i]]] :
        va \in [1..n -> Vals], vb \in [1..n -> Vals]}

Tables == UNION {RowsOfLen(n) : n \in 0..MaxNodes}

InitKnex ==
    /\ array \in Tables
    /\ params = NoParams
    /\ result = NoResult
    /\ pages = <<>>
    /\ out = NoOut

\* The ordered query is run
KnexSelectOrdered(opts) ==
    /\ out = NoOut
    /\ \E rows \in KnexRows(knexApplyOrderBy(KnexQuery(array), opts)) :
         out' = [op |-> "applyOrderBy", opts |-> opts, x |-> <<>>, ok |-> TRUE,
                 nodes |-> rows]
    /\ UNCHANGED <<array, params, result, pages>>

\* applyAfterCursor on the ordered query with the cursor of row x (made by
\* convertNodesToEdges, the same code as in the array adapter); the query is
\* run
KnexSelectAfter(opts, x) ==
    /\ out = NoOut
    /\ LET kept == knexApplyAfterCursor(knexApplyOrderBy(KnexQuery(array), opts),
                                        EdgeOf(x, opts).cursor, opts)
       IN  \E rows \in KnexRows(kept.v) :
             out' = [op |-> "applyAfterCursor", opts |-> opts, x |-> <<x>>,
                     ok |-> kept.ok, nodes |-> rows]
    /\ UNCHANGED <<array, params, result, pages>>

KnexSelectBefore(opts, x) ==
    /\ out = NoOut
    /\ LET kept == knexApplyBeforeCursor(knexApplyOrderBy(KnexQuery(array), opts),
                                         EdgeOf(x, opts).cursor, opts)
       IN  \E rows \in KnexRows(kept.v) :
             out' = [op |-> "applyBeforeCursor", opts |-> opts, x |-> <<x>>,
                     ok |-> kept.ok, nodes |-> rows]
    /\ UNCHANGED <<array, params, result, pages>>

NextKnex ==
    \/ \E opts \in OperatorOrders : KnexSelectOrdered(opts)
    \/ \E opts \in OperatorOrders, x \in Nodes : KnexSelectAfter(opts, x)
    \/ \E opts \in OperatorOrders, x \in Nodes : KnexSelectBefore(opts, x)

SpecKnex == InitKnex /\ [][NextKnex]_vars

----------------------------------------------------------------------------
(* The DynamoDB paginator.  The items of the queried partition are held in  *)
(* the order of their sort keys; the node accessor is the access pattern,   *)
(* [items, options], options a function from option names to values.       *)

\* The primary key of a node (entity parse in mode 'key')
DdbKey(node) == [pk |-> node.pk, sk |-> node.sk]

\* JSON.stringify(key, Object.keys(key).sort())
DdbKeyText(key) ==
    <<"{pk:">> \o JSONStringify(key.pk) \o <<",sk:">> \o JSONStringify(key.sk) \o <<"}">>

ddbCursorGenerator(key) == encode(DdbKeyText(key))

\* JSON.parse(decode(cursor)): [ok, error, key]; ok is FALSE when it throws
ddbGetDataFromCursor(cursor) ==
    LET s == decode(cursor)
    IN  IF /\ Len(s) = 5
           /\ s[1] = "{pk:"
           /\ s[3] = ",sk:"
           /\ s[5] = "}"
           /\ JSONParse(<<s[2]>>).ok
           /\ JSONParse(<<s[4]>>).ok
        THEN [ok |-> TRUE, error |-> "",
              key |-> [pk |-> JSONParse(<<s[2]>>).v, sk |-> JSONParse(<<s[4]>>).v]]
        ELSE [ok |-> FALSE, error |-> "SyntaxError", key |-> <<>>]

\* accessPattern.options(nextOptions, { merge: true }): a new access pattern
\* with { ...this.options, ...nextOptions }
PagerOptions(nodeAccessor, nextOptions) ==
    [items |-> nodeAccessor.items,
     options |-> [name \in DOMAIN nodeAccessor.options \cup DOMAIN nextOptions |->
                    IF name \in DOMAIN nextOptions THEN nextOptions[name]
                    ELSE nodeAccessor.options[name]]]

\* An option that is not set
NoOptions == [name \in {} |-> Absent]

\* query(queryInput).send(): the items of the partition in the direction of
\* the scan (descending sort key when reverse), from the item after
\* exclusiveStartKey in that direction on, at most limit of them
DdbSend(nodeAccessor) ==
    LET options == nodeAccessor.options
        reverse == "reverse" \in DOMAIN options /\ options.reverse
        scanned == IF reverse THEN Reverse(nodeAccessor.items) ELSE nodeAccessor.items
        Continues(item) ==
            IF "exclusiveStartKey" \in DOMAIN options
            THEN IF reverse THEN item.sk.n < options.exclusiveStartKey.sk.n
                 ELSE item.sk.n > options.exclusiveStartKey.sk.n
            ELSE TRUE
        found == SelectSeq(scanned, Continues)
    IN  IF "limit" \in DOMAIN options THEN Slice(found, 0, options.limit) ELSE found

\* applyAfterCursor and applyBeforeCursor from the decoded cursor on:
\* exclusiveStartKey is set, over the one already there.  [ok, error, v]
ddbExclusiveStart(nodeAccessor, data) ==
    IF ~data.ok THEN [ok |-> FALSE, error |-> data.error, v |-> nodeAccessor]
    ELSE [ok |-> TRUE, error |-> "",
          v |-> PagerOptions(nodeAccessor, [exclusiveStartKey |-> data.key])]

ddbApplyAfterCursor(nodeAccessor, afterCursor) ==
    ddbExclusiveStart(nodeAccessor, ddbGetDataFromCursor(afterCursor))

ddbApplyBeforeCursor(nodeAccessor, beforeCursor) ==
    ddbExclusiveStart(nodeAccessor, ddbGetDataFromCursor(beforeCursor))

ddbReturnNodesForFirst(nodeAccessor, count, ascOrDesc) ==
    DdbSend(PagerOptions(nodeAccessor, [limit |-> count, reverse |-> ascOrDesc = "desc"]))

ddbReturnNodesForLast(nodeAccessor, count, ascOrDesc) ==
    Reverse(DdbSend(PagerOptions(nodeAccessor,
                                 [limit |-> count, reverse |-> ascOrDesc = "asc"])))

\* applyCursorsToNodes with the operators of the paginator
ddbAfterApplied(nodeAccessor, after) ==
    IF TruthyString(after)
    THEN Applied(ddbApplyAfterCursor(nodeAccessor, The(after)),
                 <<Call("applyOrderBy", 0), Call("applyAfterCursor", 0)>>)
    ELSE [ok |-> TRUE, error |-> "", v |-> nodeAccessor,
          calls |-> <<Call("applyOrderBy", 0)>>]

ddbCursorsApplied(nodeAccessor, before, after) ==
    IF ddbAfterApplied(nodeAccessor, after).ok /\ TruthyString(before)
    THEN Applied(ddbApplyBeforeCursor(ddbAfterApplied(nodeAccessor, after).v, The(before)),
                 Append(ddbAfterApplied(nodeAccessor, after).calls,
                        Call("applyBeforeCursor", 0)))
    ELSE ddbAfterApplied(nodeAccessor, after)

\* nodesToReturn with the operators of the paginator, first or last a
\* positive number
ddbNodesToReturn(cursored, first, last, before, after, ascOrDesc) ==
    IF ~cursored.ok THEN Thrown(cursored.error, cursored.calls)
    ELSE IF IsSome(first)
    THEN ForwardPage(ddbReturnNodesForFirst(cursored.v, The(first) + 1, ascOrDesc),
                     The(first), before, after,
                     Append(cursored.calls, Call("returnNodesForFirst", The(first) + 1)))
    ELSE BackwardPage(ddbReturnNodesForLast(cursored.v, The(last) + 1, ascOrDesc),
                      The(last), before, after,
                      Append(cursored.calls, Call("returnNodesForLast", The(last) + 1)))

\* The items of a partition: sort keys 1..n, one data attribute
ItemsOfLen(n) ==
    {[i \in 1..n |-> [pk |-> Num(1), sk |-> Num(i), a |-> va[i]]] : va \in [1..n -> Vals]}

Partitions == UNION {ItemsOfLen(n) : n \in 0..MaxNodes}

\* The cursors of the items, and a malformed one
DdbCursors == {ddbCursorGenerator(DdbKey(array[i])) : i \in 1..Len(array)} \cup {BadCursor}

DdbOptCursors == {Absent} \cup {Some(c) : c \in DdbCursors}

InitDynamo ==
    /\ array \in Partitions
    /\ params = NoParams
    /\ result = NoResult
    /\ pages = <<>>
    /\ out = NoOut

\* paginate(queryInput, accessPattern, {first: k, after, before, orderDirection})
DdbPaginateFirst(k, after, before, ascOrDesc) ==
    /\ out = NoOut
    /\ out' = [op |-> "first", count |-> k, after |-> after, before |-> before,
               ascOrDesc |-> ascOrDesc,
               res |-> ddbNodesToReturn(
                          ddbCursorsApplied([items |-> array, options |-> NoOptions],
                                            before, after),
                          Some(k), Absent, before, after, ascOrDesc)]
    /\ UNCHANGED <<array, params, result, pages>>

\* paginate(queryInput, accessPattern, {last: k, after, before, orderDirection})
DdbPaginateLast(k, after, before, ascOrDesc) ==
    /\ out = NoOut
    /\ out' = [op |-> "last", count |-> k, after |-> after, before |-> before,
               ascOrDesc |-> ascOrDesc,
               res |-> ddbNodesToReturn(
                          ddbCursorsApplied([items |-> array, options |-> NoOptions],
                                            before, after),
                          Absent, Some(k), before, after, ascOrDesc)]
    /\ UNCHANGED <<array, params, result, pages>>

NextDynamo ==
    \/ \E k \in 1..MaxCount, after \in DdbOptCursors, before \in DdbOptCursors,
          ascOrDesc \in Directions : DdbPaginateFirst(k, after, before, ascOrDesc)
    \/ \E k \in 1..MaxCount, after \in DdbOptCursors, before \in DdbOptCursors,
          ascOrDesc \in Directions : DdbPaginateLast(k, after, before, ascOrDesc)

SpecDynamo == InitDynamo /\ [][NextDynamo]_vars

----------------------------------------------------------------------------
(* Properties of the calls of paginateArray                                 *)

Min(a, b) == IF a < b THEN a ELSE b
Take(seq, n) == SubSeq(seq, 1, Min(n, Len(seq)))
TakeLast(seq, n) == SubSeq(seq, Len(seq) - Min(n, Len(seq)) + 1, Len(seq))
NodesOf(res) == [i \in 1..Len(res.edges) |-> res.edges[i].node]

Called == params # NoParams
Resolved == result.status = "resolved"
RejectedWith(error) ==
    /\ result.status = "rejected"
    /\ result.error = error
    /\ result.edges = <<>>
    /\ result.totalCount = Absent
NoCursors == params.after = Absent /\ params.before = Absent
OnlyFirst(k) == params.first = Some(k) /\ params.last = Absent
OnlyLast(k) == params.last = Some(k) /\ params.first = Absent
Counts == -1..(MaxCount + 1)

\* The order arguments of the call, and the window its cursors leave
OptsOfCall == OrderOf([orderBy |-> params.orderBy, orderDirection |-> params.orderDirection])
CursorOfNode(node) == EdgeOf(node, OptsOfCall).cursor
CursorDecodes(c) == TruthyString(c) => getDataFromCursor(The(c)).ok
CursorsDecode == CursorDecodes(params.after) /\ CursorDecodes(params.before)
Window ==
    applyCursorsToNodes(applyOrderBy(array, OptsOfCall), params.before, params.after,
                        OptsOfCall).v

\* C1: a call that supplies both first and last, each a non-negative integer
\* (0 included), is rejected with 'Cannot specify both first and last
\* arguments' and returns no connection.  Stated for the calls without cursors.
C1_BothFirstAndLastRejected ==
    (/\ Called
     /\ NoCursors
     /\ IsSome(params.first) /\ The(params.first) >= 0
     /\ IsSome(params.last) /\ The(params.last) >= 0)
        => RejectedWith(BothFirstAndLast)

\* C2, as stated: a negative first without last is rejected with 'first
\* argument must not be less than 0', a negative last without first with
\* 'last argument must not be less than 0'; no connection is returned.
C2_NegativeCountRejected ==
    Called =>
        /\ \A k \in Counts : (k < 0 /\ OnlyFirst(k)) => RejectedWith(NegativeFirst)
        /\ \A k \in Counts : (k < 0 /\ OnlyLast(k)) => RejectedWith(NegativeLast)

\* C2, amended: the same, for the calls whose cursors decode (the cursors are
\* applied before first and last are looked at, and their error comes first)
C2_NegativeCountRejectedAfterCursors ==
    (Called /\ CursorsDecode) =>
        /\ \A k \in Counts : (k < 0 /\ OnlyFirst(k)) => RejectedWith(NegativeFirst)
        /\ \A k \in Counts : (k < 0 /\ OnlyLast(k)) => RejectedWith(NegativeLast)

C2_Witness ==
    /\ Called
    /\ OnlyLast(-1)
    /\ TruthyString(params.after)
    /\ CursorsDecode
    /\ RejectedWith(NegativeLast)

\* C3, as stated: a call that supplies neither first nor last is rejected with
\* 'first or last argument must be provided' and returns no connection.
C3_MissingDirectionRejected ==
    (Called /\ params.first = Absent /\ params.last = Absent)
        => RejectedWith(NeitherFirstNorLast)

\* C3, amended: the same, for the calls whose cursors decode
C3_MissingDirectionRejectedAfterCursors ==
    (Called /\ CursorsDecode /\ params.first = Absent /\ params.last = Absent)
        => RejectedWith(NeitherFirstNorLast)

C3_Witness ==
    /\ Called
    /\ params.first = Absent /\ params.last = Absent
    /\ TruthyString(params.before)
    /\ CursorsDecode
    /\ Len(array) >= 2
    /\ RejectedWith(NeitherFirstNorLast)

\* C4: a call with first: 0 (resp. last: 0) and no other count argument
\* resolves with zero edges, and hasNextPage (resp. hasPreviousPage) is true
\* exactly when the window holds at least one node.  Stated for the calls
\* whose cursors decode.
C4_ZeroCountIsValid ==
    (Called /\ CursorsDecode) =>
        /\ OnlyFirst(0) =>
              /\ Resolved
              /\ result.edges = <<>>
              /\ result.pageInfo.hasNextPage = (Window # <<>>)
        /\ OnlyLast(0) =>
              /\ Resolved
              /\ result.edges = <<>>
              /\ result.pageInfo.hasPreviousPage = (Window # <<>>)

\* C5: over N nodes with distinct keys and without cursors, for every
\* k >= 1, first: k gives hasNextPage = (k < N) and last: k gives
\* hasPreviousPage = (k < N).
OrderColumnOfCall == OptsOfCall.orderColumn.v[1]
DistinctKeys ==
    \A i, j \in 1..Len(array) :
        i # j => Get(array[i], OrderColumnOfCall) # Get(array[j], OrderColumnOfCall)

C5_FlagsWithoutCursors ==
    (Called /\ NoCursors /\ DistinctKeys) =>
        \A k \in Counts : k >= 1 =>
            /\ OnlyFirst(k) =>
                  Resolved /\ result.pageInfo.hasNextPage = (k < Len(array))
            /\ OnlyLast(k) =>
                  Resolved /\ result.pageInfo.hasPreviousPage = (k < Len(array))

C5_Witness ==
    /\ Called /\ NoCursors /\ DistinctKeys
    /\ params.orderBy = Some(Scalar("a"))
    /\ OnlyFirst(1)
    /\ Len(array) = 2
    /\ Resolved
    /\ result.pageInfo.hasNextPage

\* C6: over N nodes ordered by the primary key ascending, first: k returns
\* the first min(k, N) nodes with hasPreviousPage = false; after: the cursor
\* of the i-th node, first: k returns the nodes i+1 .. min(i+k, N) in order
\* with hasPreviousPage = true and hasNextPage = (i+k < N); last: k returns
\* the final min(k, N) nodes in ascending order with hasNextPage = false.
ByPrimaryKey ==
    [i \in 1..Len(array) |->
        CHOOSE node \in {array[j] : j \in 1..Len(array)} : node.id = Num(i)]
PrimaryKeyAscending == params.orderBy = Absent /\ params.orderDirection = Absent
Between(seq, from, to) == IF from > to THEN <<>> ELSE SubSeq(seq, from, to)

IsScanStart(entry) ==
    /\ IsSome(entry.params.first) /\ The(entry.params.first) >= 1
    /\ entry.params.last = Absent
    /\ entry.params.after = Absent
    /\ entry.params.before = Absent
IsNextOf(entry, prev) ==
    /\ prev.result.status = "resolved"
    /\ prev.result.pageInfo.hasNextPage
    /\ entry.params = [prev.params EXCEPT !.after = prev.result.pageInfo.endCursor]
IsPreviousOf(entry, prev) ==
    /\ prev.result.status = "resolved"
    /\ prev.result.edges # <<>>
    /\ entry.params = [prev.params EXCEPT
                           !.first = Absent, !.after = Absent,
                           !.last = prev.params.first,
                           !.before = prev.result.pageInfo.startCursor]
ForwardScan ==
    /\ pages # <<>>
    /\ IsScanStart(pages[1])
    /\ \A i \in 2..Len(pages) : IsNextOf(pages[i], pages[i - 1])
RECURSIVE VisitedUpTo(_)
VisitedUpTo(n) ==
    IF n = 0 THEN <<>> ELSE VisitedUpTo(n - 1) \o NodesOf(pages[n].result)
Visited == VisitedUpTo(Len(pages))

\* C7: with one orderBy column (whose values may repeat) in either direction,
\* the scan that starts with first: k (k >= 1) and follows endCursor while
\* hasNextPage is true ends with hasNextPage = false, its pages are pairwise
\* disjoint, and their concatenation is the whole collection in sorted order.
C7_ForwardScanVisitsAll ==
    ForwardScan =>
        /\ \A i \in 1..Len(pages) :
              /\ pages[i].result.status = "resolved"
              /\ pages[i].result.pageInfo.hasNextPage => pages[i].result.edges # <<>>
        /\ \A i, j \in 1..Len(Visited) : i # j => Visited[i].id # Visited[j].id
        /\ ~LastEntry.result.pageInfo.hasNextPage =>
              Visited = applyOrderBy(array, OptsOfCall)

\* C8: with page1 the result of first: k and page2 the non-empty result of
\* first: k, after: page1.endCursor, the call last: k, before:
\* page2.startCursor returns the nodes of page1 in the same order, with
\* hasNextPage = true and hasPreviousPage = false.
C8_BackToTheFirstPage ==
    (/\ Len(pages) = 3
     /\ IsScanStart(pages[1])
     /\ IsNextOf(pages[2], pages[1])
     /\ IsPreviousOf(pages[3], pages[2])) =>
        /\ pages[3].result.status = "resolved"
        /\ NodesOf(pages[3].result) = NodesOf(pages[1].result)
        /\ pages[3].result.pageInfo.hasNextPage
        /\ ~pages[3].result.pageInfo.hasPreviousPage

----------------------------------------------------------------------------
(* Properties of the operators of the array adapter                         *)

OrderedCollection == applyOrderBy(array, out.opts)
PositionOf(x) ==
    CHOOSE i \in 1..Len(OrderedCollection) : OrderedCollection[i].id = x.id
SetOf(seq) == {seq[i] : i \in 1..Len(seq)}

\* C9: for any ordering (one or several columns, any mix of asc and desc,
\* duplicate and null column values, distinct primary keys), applyAfterCursor
\* with the cursor of node x keeps exactly the nodes that come strictly after
\* x in the order of applyOrderBy, and applyBeforeCursor exactly the nodes
\* that come strictly before x.
C9_CursorsCutTheOrder ==
    /\ out.op = "applyAfterCursor" =>
          /\ out.ok
          /\ SetOf(out.nodes) =
                {OrderedCollection[i] : i \in (PositionOf(out.x) + 1)..Len(array)}
    /\ out.op = "applyBeforeCursor" =>
          /\ out.ok
          /\ SetOf(out.nodes) =
                {OrderedCollection[i] : i \in 1..(PositionOf(out.x) - 1)}

\* C10: returnNodesForLast(accessor, count, order) returns the final
\* min(count, N) nodes of the order of applyOrderBy for the same order
\* arguments, in that forward order, also when values of the order columns
\* are duplicated or null.
C10_LastNodesOfTheOrder ==
    out.op = "returnNodesForLast" => out.nodes = TakeLast(OrderedCollection, out.count)

\* The order C11 describes: column by column, each in its direction, a
\* null or undefined value after every number and level with another null
\* or undefined value, the primary key ascending at the end
DirectionOfColumn(opts, i) == opts.ascOrDesc.v[i]
RECURSIVE GoesBefore(_, _, _, _)
GoesBefore(x, y, opts, i) ==
    IF i > Len(opts.orderColumn.v) THEN x.id.n < y.id.n
    ELSE LET xValue == Get(x, opts.orderColumn.v[i])
             yValue == Get(y, opts.orderColumn.v[i])
         IN  IF IsNullish(xValue) /\ IsNullish(yValue)
             THEN GoesBefore(x, y, opts, i + 1)
             ELSE IF IsNullish(xValue) THEN FALSE
             ELSE IF IsNullish(yValue) THEN TRUE
             ELSE IF xValue.n = yValue.n THEN GoesBefore(x, y, opts, i + 1)
             ELSE IF DirectionOfColumn(opts, i) = "asc" THEN xValue.n < yValue.n
             ELSE xValue.n > yValue.n

IsPermutation(seq, nodes) ==
    /\ Len(seq) = Len(nodes)
    /\ SetOf(seq) = SetOf(nodes)

\* C11: applyOrderBy returns a permutation of its input sorted
\* lexicographically over the order columns, each in its own direction, with
\* null/undefined values last regardless of direction and nodes equal on all
\* order columns by primary key ascending; the order is a strict total order
\* when the primary keys are distinct.
C11_OrderedLexicographically ==
    out.op = "applyOrderBy" =>
        /\ IsPermutation(out.nodes, array)
        /\ \A i, j \in 1..Len(out.nodes) :
              i < j => GoesBefore(out.nodes[i], out.nodes[j], out.opts, 1)
        /\ ComparatorIsConsistent(array, out.opts)

\* C12: when totalCount is not skipped, totalCount is the number of nodes of
\* the accessor as the caller supplied it, and so the same for every choice
\* of first, last, after and before over the same collection.
C12_TotalCountOfTheCollection ==
    \A i \in 1..Len(pages) :
        pages[i].result.status = "resolved" =>
            /\ pages[i].result.totalCount = Some(Len(array))
            /\ \A j \in 1..Len(pages) :
                  pages[j].result.status = "resolved" =>
                      pages[j].result.totalCount = pages[i].result.totalCount

\* Two pages of one collection, cut by different cursors and shorter than the
\* collection, with the same totalCount
C12_Witness ==
    /\ Len(pages) >= 2
    /\ pages[1].result.status = "resolved"
    /\ pages[2].result.status = "resolved"
    /\ pages[1].params.after # pages[2].params.after
    /\ Len(pages[2].result.edges) < Len(array)
    /\ pages[2].result.totalCount = Some(Len(array))
    /\ pages[1].result.totalCount = Some(Len(array))

CallsOf(op) == {i \in 1..Len(result.calls) : result.calls[i].op = op}

\* C13: totalCount is computed by returnTotalCount on the pre-slice accessor,
\* the accessor after ordering and the after/before cursor bounds but before
\* the first/last limit.
C13_CountsThePreSliceAccessor ==
    (Called /\ Resolved) => result.totalCount = Some(returnTotalCount(Window))

\* C13, as the builder does it: totalCount is computed by one call of
\* returnTotalCount, made after the page was fetched and before the edges are
\* built, on the accessor the caller supplied, which neither the ordering nor
\* the cursor bounds nor the limit have changed.
C13_CountsTheSuppliedAccessor ==
    (Called /\ Resolved) =>
        /\ result.totalCount = Some(returnTotalCount(array))
        /\ Cardinality(CallsOf("returnTotalCount")) = 1
        /\ \A i \in CallsOf("returnTotalCount") :
              /\ \A j \in CallsOf("returnNodesForFirst") \cup CallsOf("returnNodesForLast")
                           \cup CallsOf("applyAfterCursor") \cup CallsOf("applyBeforeCursor")
                           \cup CallsOf("applyOrderBy") : j < i
              /\ \A j \in CallsOf("convertNodesToEdges") : i < j

\* A call whose cursor leaves fewer nodes than the collection has
C13_Witness ==
    /\ Called
    /\ Resolved
    /\ TruthyString(params.after)
    /\ Len(Window) < Len(array)
    /\ Len(result.edges) > 0
    /\ result.totalCount = Some(Len(array))

\* What a caller sees of a settled invocation
Outcome(res) ==
    [status |-> res.status, error |-> res.error, edges |-> res.edges,
     pageInfo |-> res.pageInfo, totalCount |-> res.totalCount]
SameCall(p, q) == p.accessor = q.accessor /\ p.params = q.params
OpsOf(res) == {res.calls[i].op : i \in 1..Len(res.calls)}

\* C14: with the option skipTotalCount true, returnTotalCount is never invoked
\* during the call and totalCount is undefined; edges and pageInfo are those
\* of the same call without skipTotalCount.
C14_SkipTotalCount ==
    \A i \in 1..Len(pages) :
        pages[i].options.skipTotalCount =>
            /\ "returnTotalCount" \notin OpsOf(pages[i].result)
            /\ pages[i].result.totalCount = Absent
            /\ \A j \in 1..Len(pages) :
                  (SameCall(pages[i], pages[j]) /\ ~pages[j].options.skipTotalCount) =>
                      /\ pages[i].result.status = pages[j].result.status
                      /\ pages[i].result.edges = pages[j].result.edges
                      /\ pages[i].result.pageInfo = pages[j].result.pageInfo

\* A call that returned nodes and their count, and the same call skipping
\* the count
C14_Witness ==
    /\ Len(pages) = 2
    /\ SameCall(pages[1], pages[2])
    /\ ~pages[1].options.skipTotalCount
    /\ pages[2].options.skipTotalCount
    /\ pages[1].result.status = "resolved"
    /\ pages[1].result.totalCount = Some(Len(array))
    /\ Len(pages[1].result.edges) > 0
    /\ pages[2].result.status = "resolved"
    /\ pages[2].result.totalCount = Absent

\* C16: the cursor of a node is a function of its primary key and its
\* ordering-column values only: after any other node is inserted, the same
\* call returns the identical cursor for that node.
C16_CursorsAreStable ==
    \A i, j \in 1..Len(pages) :
        \A m \in 1..Len(pages[i].result.edges), n \in 1..Len(pages[j].result.edges) :
            pages[i].result.edges[m].node = pages[j].result.edges[n].node =>
                pages[i].result.edges[m].cursor = pages[j].result.edges[n].cursor

\* A node that another node, inserted between the two calls, moved to
\* another place of the page
C16_Witness ==
    /\ Len(pages) = 2
    /\ pages[1].accessor # pages[2].accessor
    /\ \E m \in 1..Len(pages[1].result.edges), n \in 1..Len(pages[2].result.edges) :
         /\ m # n
         /\ pages[1].result.edges[m].node = pages[2].result.edges[n].node
         /\ pages[1].result.edges[m].cursor = pages[2].result.edges[n].cursor

ValuesOf(node, opts) ==
    [i \in 1..Len(opts.orderColumn.v) |-> Get(node, opts.orderColumn.v[i])]
AllDefined(node, opts) ==
    /\ Get(node, opts.primaryKey) # Undefined
    /\ \A i \in 1..Len(opts.orderColumn.v) : ValuesOf(node, opts)[i] # Undefined

\* C15: for every node with a defined primary key and every tuple of
\* order-column values that are strings, numbers or null, getDataFromCursor
\* of the cursor convertNodesToEdges made recovers the primary key (as its
\* text) and the same ordered list of values.
C15_CursorRoundTrip ==
    (out.op = "getDataFromCursor" /\ AllDefined(array[1], out.opts)) =>
        /\ out.data.ok
        /\ out.data.id = TemplateOf(array[1].id)
        /\ out.data.values = ValuesOf(array[1], out.opts)

\* C18: convertNodesToEdges fails with an error whenever a node lacks a value
\* for the primary key or for a column of the active ordering, and never
\* emits a cursor for such a node.
C18_MissingValuesRejected ==
    (out.op = "convertNodesToEdges" /\ ~AllDefined(array[1], out.opts)) =>
        /\ ~out.converted.ok
        /\ out.converted.edges = <<>>

\* C17: a call whose after or before cursor is malformed or lacks expected
\* fields (no separator between primary key and values, or fewer ordering
\* values than the ordering has columns) rejects with an error and never
\* filters with partial cursor data.
C17_ShortCursorsRejected ==
    out.op = "paginateArray" =>
        /\ out.res.status = "rejected"
        /\ out.res.edges = <<>>

SliceCalls == CallsOf("returnNodesForFirst") \cup CallsOf("returnNodesForLast")

\* C22: every successful invocation makes exactly one slice call: with
\* first = k it calls returnNodesForFirst once with count k+1 and never
\* returnNodesForLast; with last = k it calls returnNodesForLast once with
\* count k+1 and never returnNodesForFirst; no slice call asks for more than
\* count+1 nodes.
C22_OneSliceCall ==
    (Called /\ Resolved) =>
        /\ Cardinality(SliceCalls) = 1
        /\ IsSome(params.first) =>
              /\ CallsOf("returnNodesForLast") = {}
              /\ \A i \in SliceCalls : result.calls[i].count = The(params.first) + 1
        /\ IsSome(params.last) =>
              /\ CallsOf("returnNodesForFirst") = {}
              /\ \A i \in SliceCalls : result.calls[i].count = The(params.last) + 1

\* The operators an invocation called, in the order of the calls
OpsCalled(res) == [i \in 1..Len(res.calls) |-> res.calls[i].op]
Times(n, op) == [i \in 1..n |-> op]

CursorErrors == {"Could not find edge with cursor", "SyntaxError"}
ValidationErrors == {BothFirstAndLast, NegativeFirst, NegativeLast, NeitherFirstNorLast}

\* C24: if a call rejects because a cursor cannot be decoded or because
\* first/last are invalid (both given, negative, or neither given), then no
\* return* operator (returnNodesForFirst, returnNodesForLast,
\* returnTotalCount) and no convertNodesToEdges call has happened in that
\* invocation.
C24_NoFetchBeforeRejection ==
    (Called /\ result.status = "rejected"
       /\ result.error \in CursorErrors \cup ValidationErrors) =>
        OpsOf(result) \cap {"returnNodesForFirst", "returnNodesForLast",
                            "returnTotalCount", "convertNodesToEdges"} = {}

\* A negative last with a cursor that decodes: rejected after the order and
\* the cursor were applied
C24_Witness ==
    /\ Called
    /\ OnlyLast(-1)
    /\ IsSome(params.before)
    /\ RejectedWith(NegativeLast)
    /\ OpsCalled(result) = <<"applyOrderBy", "applyBeforeCursor">>

\* The calls whose first and last are invalid, and the error of each: both
\* given (neither of them 0), one negative without the other, none given
InvalidCounts ==
    \/ IsSome(params.first) /\ IsSome(params.last)
         /\ The(params.first) # 0 /\ The(params.last) # 0
    \/ \E k \in Counts : k < 0 /\ (OnlyFirst(k) \/ OnlyLast(k))
    \/ params.first = Absent /\ params.last = Absent
ValidationError ==
    IF IsSome(params.first) /\ IsSome(params.last) THEN BothFirstAndLast
    ELSE IF IsSome(params.first) THEN NegativeFirst
    ELSE IF IsSome(params.last) THEN NegativeLast
    ELSE NeitherFirstNorLast

PageNodesOf(p) ==
    nodesToReturn(p.accessor, p.params.before, p.params.after, p.params.first,
                  p.params.last, OptsOf(p.params, p.options.primaryKey)).nodes
ConvertedOf(p) ==
    convertNodesToEdges(PageNodesOf(p), OptsOf(p.params, p.options.primaryKey)).edges

\* C28: result.edges is the list obtained by applying modifyEdgeFn (identity
\* when absent) once to each edge produced by convertNodesToEdges, in order;
\* startCursor is the cursor of the first of these edges and endCursor the
\* cursor of the last; both are undefined exactly when edges is empty, in
\* which case (no cursors supplied) both flags are false and totalCount is 0.
C28_ResultAssembly ==
    \A i \in 1..Len(pages) :
        pages[i].result.status = "resolved" =>
            LET res == pages[i].result
                n == Len(res.edges)
            IN  /\ n = Len(ConvertedOf(pages[i]))
                /\ \A m \in 1..n :
                      res.edges[m] = IF pages[i].options.modifyEdgeFn
                                     THEN modifyEdgeFn(ConvertedOf(pages[i])[m])
                                     ELSE ConvertedOf(pages[i])[m]
                /\ n > 0 => /\ res.pageInfo.startCursor = Some(res.edges[1].cursor)
                            /\ res.pageInfo.endCursor = Some(res.edges[n].cursor)
                /\ (res.pageInfo.startCursor = Absent) <=> (n = 0)
                /\ (res.pageInfo.endCursor = Absent) <=> (n = 0)
                /\ (n = 0 /\ pages[i].params.after = Absent
                          /\ pages[i].params.before = Absent) =>
                      /\ ~res.pageInfo.hasNextPage
                      /\ ~res.pageInfo.hasPreviousPage
                      /\ ~pages[i].options.skipTotalCount => res.totalCount = Some(0)

\* The empty page of an empty collection, and the page of one modified edge
\* the same call returns once a node is stored
C28_Witness ==
    /\ Len(pages) = 2
    /\ pages[1].options.modifyEdgeFn
    /\ pages[1].result.status = "resolved"
    /\ pages[1].result.edges = <<>>
    /\ pages[1].result.pageInfo.startCursor = Absent
    /\ pages[1].result.totalCount = Some(0)
    /\ pages[2].result.status = "resolved"
    /\ Len(pages[2].result.edges) = 1
    /\ pages[2].result.edges[1].custom = "test"
    /\ pages[2].result.pageInfo.endCursor = Some(pages[2].result.edges[1].cursor)

\* C29: for any adapter, including one that returns more nodes than asked:
\* with first = k the result never has more than k edges, and with last = k
\* the result never has more than k edges.
C29_PageSizeBound ==
    out.op \in {"first", "last"} => Len(out.res.edges) <= out.count

\* C30: the array paginator leaves the caller's array unchanged: after any
\* call (successful or rejected, forward or backward, with or without
\* cursors) the input array holds the same elements in the same order as
\* before the call.
C30_ArrayUnchanged ==
    [][(params' # NoParams /\ pages' # pages) => array' = array]_vars

\* A backward call before a cursor over an array that is not in the order
\* the call asks for, settled
C30_Witness ==
    /\ Called
    /\ Resolved
    /\ IsSome(params.last)
    /\ IsSome(params.before)
    /\ Len(result.edges) > 0
    /\ Len(array) >= 2
    /\ applyOrderBy(array, OptsOfCall) # array

\* The rows of a query result
RowsOf(s) == {s[i] : i \in 1..Len(s)}

\* The ORDER BY terms that applyOrderBy of the Knex adapter builds
KnexOrders(opts) == knexApplyOrderBy(KnexQuery(array), opts).orders

\* C26: in the Knex adapter the WHERE predicate that applyAfterCursor (resp.
\* applyBeforeCursor) builds from the cursor of row x selects exactly the
\* rows that sort strictly after (resp. strictly before) x under the ORDER BY
\* that applyOrderBy builds, for one or more order columns in any directions
\* with values that may repeat
C26_WhereMatchesOrderBy ==
    /\ (out # NoOut /\ out.op = "applyAfterCursor") =>
          /\ out.ok
          /\ RowsOf(out.nodes) =
                {y \in Nodes : SqlGoesFirst(out.x[1], y, KnexOrders(out.opts), 1)}
    /\ (out # NoOut /\ out.op = "applyBeforeCursor") =>
          /\ out.ok
          /\ RowsOf(out.nodes) =
                {y \in Nodes : SqlGoesFirst(y, out.x[1], KnexOrders(out.opts), 1)}

\* Whether item x comes strictly before item y in the requested order
DdbGoesFirst(x, y, ascOrDesc) ==
    IF ascOrDesc = "asc" THEN x.sk.n < y.sk.n ELSE x.sk.n > y.sk.n

\* The item a cursor of the paginator stands for
DdbItemOf(cursor) ==
    CHOOSE item \in Nodes : ddbCursorGenerator(DdbKey(item)) = cursor

\* C27: every node the DynamoDB paginator returns lies strictly after the
\* item of the after cursor and strictly before the item of the before
\* cursor in the requested order, with first and with last, and also when
\* both cursors are supplied
C27_NodesWithinTheCursors ==
    (out # NoOut /\ out.res.ok) =>
        \A i \in 1..Len(out.res.nodes) :
            /\ IsSome(out.after) =>
                  DdbGoesFirst(DdbItemOf(The(out.after)), out.res.nodes[i], out.ascOrDesc)
            /\ IsSome(out.before) =>
                  DdbGoesFirst(out.res.nodes[i], DdbItemOf(The(out.before)), out.ascOrDesc)

====
